---- MODULE Spec2Model ----
(***************************************************************************)
(* Kill-score handicap analysis of the Dota statistics dashboard.          *)
(*                                                                         *)
(* Three pages aggregate handicap statistics over a match population:      *)
(*   "compare"  app/patches/[patch]/page.tsx (calculateTeamHandicapData)   *)
(*   "general"  app/patches/[patch]/handicap/general/page.tsx              *)
(*   "team"     app/teams/[slug]/handicap/page.tsx                         *)
(*                                                                         *)
(* Numbers.  Handicap values are JavaScript doubles that are multiples of  *)
(* 0.5; they and every sum kd + h are exact in binary floating point, so   *)
(* they are modelled as integers counting TENTHS (-16.5 is -165, the step  *)
(* 2.0 is 20).  Percentages (two decimals) are integers counting           *)
(* HUNDREDTHS (50.00 is 5000), avgKillDifference likewise, and             *)
(* avgDurationMinutes (one decimal) counts tenths.  Strings produced by    *)
(* toFixed are sequences of one-character strings.                         *)
(*                                                                         *)
(* Population.  Array.forEach visits the population left to right; every   *)
(* loop step of the model draws the next element of the array from the     *)
(* set of possible match records, so the reachable accumulator states are  *)
(* those of every population of at most MaxMatches records.                *)
(***************************************************************************)
EXTENDS Integers, Sequences, FiniteSets, TLC

\* ---------------------------------------------------------------- bounds
\* matches of the patch a comparison or a general table visits in one run
MaxMatches == 2

\* rows of the matches table the team query meets in one run
MaxTeamMatches == 3

\* JavaScript null (mapMatch yields null for an absent team id)
Null == "<null>"

\* the (radiant, dire) team ids of the rows the head-to-head loop meets
HeadSides == {<<"t1", "t2">>, <<"t2", "t1">>, <<"t1", Null>>, <<Null, "t2">>,
              <<"t1", "t3">>, <<"t3", "t2">>, <<"t1", "t1">>}

\* the (radiant, dire) team ids of the rows of a patch: two teams on either
\* side, a row without team ids, a row with one team on both sides
PatchSides == {<<"t1", "t2">>, <<"t2", "t1">>, <<Null, Null>>, <<"t1", "t1">>}

\* the rows the team query is evaluated on: the team "t1" on either side, and
\* rows it does not play in
TeamSides == {<<"t1", "t2">>, <<"t2", "t1">>}
OtherSides == {<<"t2", Null>>}

\* (radiantScore, direScore): kill differentials 0, 5 and 20 for the radiant
\* side and 0, -5 and -20 for the dire side; 5 and -5 on the team page
ScorePairs == {<<10, 10>>, <<15, 10>>, <<30, 10>>}
TeamScorePairs == {<<15, 10>>}

\* duration in seconds
Durations == {1800, 2400}

\* (leagueId, patchId) of a row of the team query; "" is an absent id
GroupKeys == {<<"l1", "p1">>, <<"l2", "">>, <<"", "p2">>}

\* JavaScript truthiness of a string-or-null value
Truthy(x) == x # Null /\ x # ""

Abs(n) == IF n < 0 THEN -n ELSE n

\* ------------------------------------------------- number <-> string
Digits == <<"0", "1", "2", "3", "4", "5", "6", "7", "8", "9">>

Digit(d) == Digits[d + 1]

DigitValue(c) ==
    CASE c = "0" -> 0 [] c = "1" -> 1 [] c = "2" -> 2 [] c = "3" -> 3
      [] c = "4" -> 4 [] c = "5" -> 5 [] c = "6" -> 6 [] c = "7" -> 7
      [] c = "8" -> 8 [] c = "9" -> 9

RECURSIVE DecString(_)
DecString(n) == IF n < 10 THEN <<Digit(n)>>
                ELSE DecString(n \div 10) \o <<Digit(n % 10)>>

\* Number.prototype.toFixed(0) of the value v/10: nearest integer, the
\* larger one on a tie; a negative value is printed as "-" and its negation
ToFixed0(v) == (IF v < 0 THEN <<"-">> ELSE <<>>) \o DecString((Abs(v) + 5) \div 10)

\* Number.prototype.toFixed(1) of the value v/10
ToFixed1(v) == (IF v < 0 THEN <<"-">> ELSE <<>>)
               \o DecString(Abs(v) \div 10) \o <<".", Digit(Abs(v) % 10)>>

\* variant: always value.toFixed(0)
formatHandicapWhole(value) == ToFixed0(value)

\* value % 1 === 0 ? value.toFixed(0) : value.toFixed(1)
\* (one copy per page file)
formatHandicap(value) == IF value % 10 = 0 THEN ToFixed0(value) ELSE ToFixed1(value)

formatHandicapGeneral(value) == IF value % 10 = 0 THEN ToFixed0(value) ELSE ToFixed1(value)

formatHandicapTeam(value) == IF value % 10 = 0 THEN ToFixed0(value) ELSE ToFixed1(value)

RECURSIVE ParseDigits(_, _)
ParseDigits(s, acc) == IF s = <<>> THEN acc
                       ELSE ParseDigits(Tail(s), acc * 10 + DigitValue(Head(s)))

\* Number(label) for a label "[-]digits[.digit]", in tenths
ParseUnsigned(s) ==
    IF Len(s) >= 2 /\ s[Len(s) - 1] = "."
    THEN 10 * ParseDigits(SubSeq(s, 1, Len(s) - 2), 0) + DigitValue(s[Len(s)])
    ELSE 10 * ParseDigits(s, 0)

NumberOf(s) == IF Head(s) = "-" THEN -ParseUnsigned(Tail(s)) ELSE ParseUnsigned(s)

\* n / d rounded to the nearest integer, the larger one on a tie (toFixed),
\* for n >= 0 and d > 0
RoundDiv(n, d) == (2 * n + d) \div (2 * d)

\* the same for a numerator of either sign: toFixed rounds the magnitude
RoundDivSigned(n, d) == IF n < 0 THEN -RoundDiv(-n, d) ELSE RoundDiv(n, d)

RangeOf(seq) == {seq[i] : i \in 1..Len(seq)}

\* ------------------------------------------------ handicap range (4.1)
\* for (let value = from; value <= to; value += 2.0) range.push(format(value))
RECURSIVE RangeLoop(_, _, _)
RangeLoop(value, to, range) ==
    IF value <= to THEN RangeLoop(value + 20, to, Append(range, formatHandicap(value)))
    ELSE range

\* variant: the second loop stops one step early
buildHandicapRangeShort == RangeLoop(5, 145, RangeLoop(-165, 0, <<>>))

\* variant: whole-number handicaps -16, -14, ..., 0, 1, ..., 17
buildHandicapRangeWhole == RangeLoop(10, 170, RangeLoop(-160, 0, <<>>))

\* variant: the two loops run from -20.5 and up to 20.5
buildHandicapRangeWide == RangeLoop(5, 205, RangeLoop(-205, 0, <<>>))

buildHandicapRange == RangeLoop(5, 165, RangeLoop(-165, 0, <<>>))

RECURSIVE RangeLoopGeneral(_, _, _)
RangeLoopGeneral(value, to, range) ==
    IF value <= to
    THEN RangeLoopGeneral(value + 20, to, Append(range, formatHandicapGeneral(value)))
    ELSE range

buildHandicapRangeGeneral == RangeLoopGeneral(5, 165, RangeLoopGeneral(-165, 0, <<>>))

RECURSIVE RangeLoopTeam(_, _, _)
RangeLoopTeam(value, to, range) ==
    IF value <= to
    THEN RangeLoopTeam(value + 20, to, Append(range, formatHandicapTeam(value)))
    ELSE range

\* variant: the first loop starts one step late
buildHandicapRangeTeamLate == RangeLoopTeam(5, 165, RangeLoopTeam(-145, 0, <<>>))

buildHandicapRangeTeam == RangeLoopTeam(5, 165, RangeLoopTeam(-165, 0, <<>>))

\* handicapRange.map((value) => Number(value))
handicapValuesOf(range) == [i \in 1..Len(range) |-> NumberOf(range[i])]

\* ------------------------------------------------ bucket maps (4.3)
\* Object.fromEntries(handicapRange.map((handicap) => [handicap, 0]))
createBuckets(range) == [h \in RangeOf(range) |-> 0]

createBucketsGeneral(range) == [h \in RangeOf(range) |-> 0]

\* bucket[key] ?? 0
Get(bucket, key) == IF key \in DOMAIN bucket THEN bucket[key] ELSE 0

\* bucket[key] = value
Put(bucket, key, value) ==
    IF key \in DOMAIN bucket THEN [bucket EXCEPT ![key] = value]
    ELSE [k \in DOMAIN bucket \cup {key} |-> IF k = key THEN value ELSE bucket[k]]

\* variant: the comparison is the wrong way round
CoveredBelow(killDifference, h) == killDifference * 10 + h < 0

\* the test of the accumulator; kd is an integer, h is in tenths
Covered(killDifference, h) == killDifference * 10 + h > 0

RECURSIVE ApplyLoop(_, _, _, _, _)
ApplyLoop(i, killDifference, range, values, bucket) ==
    IF i > Len(range) THEN bucket
    ELSE ApplyLoop(i + 1, killDifference, range, values,
                   IF Covered(killDifference, values[i])
                   THEN Put(bucket, range[i], Get(bucket, range[i]) + 1)
                   ELSE bucket)

\* variant: every counter of the bucket is incremented
applyHandicapRangeAll(killDifference, range, values, bucket) ==
    [h \in DOMAIN bucket |-> bucket[h] + 1]

\* variant: a handicap the differential does not cover is set back to 0
applyHandicapRangeReset(killDifference, range, values, bucket) ==
    [h \in DOMAIN bucket |->
        IF \E i \in 1..Len(range) :
               range[i] = h /\ Covered(killDifference, values[i])
        THEN bucket[h] + 1 ELSE 0]

\* variant: the loop runs twice over the range
applyHandicapRangeTwice(killDifference, range, values, bucket) ==
    ApplyLoop(1, killDifference, range, values,
              ApplyLoop(1, killDifference, range, values, bucket))

applyHandicapRange(killDifference, range, values, bucket) ==
    ApplyLoop(1, killDifference, range, values, bucket)

RECURSIVE ApplyLoopGeneral(_, _, _, _, _)
ApplyLoopGeneral(i, killDifference, range, values, bucket) ==
    IF i > Len(range) THEN bucket
    ELSE ApplyLoopGeneral(i + 1, killDifference, range, values,
                          IF Covered(killDifference, values[i])
                          THEN Put(bucket, range[i], Get(bucket, range[i]) + 1)
                          ELSE bucket)

applyHandicapRangeGeneral(killDifference, range, values, bucket) ==
    ApplyLoopGeneral(1, killDifference, range, values, bucket)

\* variant: the quotient is not scaled to a percentage
calculatePercentagesFraction(range, counts, total) ==
    [h \in RangeOf(range) |->
        IF total > 0 THEN RoundDiv(Get(counts, h) * 100, total) ELSE 0]

\* variant: the division is not guarded; 0 / 0 is NaN, written -1 here
calculatePercentagesUnguarded(range, counts, total) ==
    [h \in RangeOf(range) |->
        IF total # 0 THEN RoundDiv(Get(counts, h) * 10000, total) ELSE -1]

\* total > 0 ? Number(((counts[h] ?? 0) / total * 100).toFixed(2)) : 0
\* (exact while total < 20000: no quotient lies on a rounding tie)
calculatePercentages(range, counts, total) ==
    [h \in RangeOf(range) |->
        IF total > 0 THEN RoundDiv(Get(counts, h) * 10000, total) ELSE 0]

calculatePercentagesGeneral(range, counts, total) ==
    [h \in RangeOf(range) |->
        IF total > 0 THEN RoundDiv(Get(counts, h) * 10000, total) ELSE 0]

\* --------------------------------------- patch comparison page (4.2, 4.4)
\* match.radiantTeamId === team.id / match.direTeamId === team.id
\* variant: a match without a radiant team id counts for every team
isRadiantOfOrUnassigned(match, teamId) ==
    match.radiantTeamId = teamId \/ match.radiantTeamId = Null

isRadiantOf(match, teamId) == match.radiantTeamId = teamId

\* variant: every match in which the team is not radiant counts as dire
isDireOfNotRadiant(match, teamId) == match.radiantTeamId # teamId

isDireOf(match, teamId) == match.direTeamId = teamId

\* variant: only a radiant win is a win
teamWonOfCompareRadiantOnly(match, teamId) ==
    isRadiantOf(match, teamId) /\ match.radiantWin

\* (isRadiant && match.radiantWin) || (isDire && !match.radiantWin)
teamWonOfCompare(match, teamId) ==
    (isRadiantOf(match, teamId) /\ match.radiantWin)
    \/ (isDireOf(match, teamId) /\ ~match.radiantWin)

\* variant: the radiant side's differential, whatever side the team is on
killDifferenceOfRadiant(match, teamId) == match.radiantScore - match.direScore

\* isRadiant ? match.radiantScore - match.direScore
\*           : match.direScore - match.radiantScore
killDifferenceOf(match, teamId) ==
    IF isRadiantOf(match, teamId) THEN match.radiantScore - match.direScore
    ELSE match.direScore - match.radiantScore

\* the locals of calculateTeamHandicapData before the loop
calculateTeamHandicapDataInit(range) ==
    [counts |-> [victories |-> createBuckets(range),
                 losses |-> createBuckets(range),
                 general |-> createBuckets(range)],
     totalMatches |-> 0, victories |-> 0, losses |-> 0,
     killSum |-> 0, durationSum |-> 0]

\* the callback of matches.forEach in calculateTeamHandicapData
calculateTeamHandicapDataStep(acc, match, teamId, range, values) ==
    LET isRadiant == isRadiantOf(match, teamId)
        isDire == isDireOf(match, teamId)
        teamWon == teamWonOfCompare(match, teamId)
        killDifference == killDifferenceOf(match, teamId)
        general == applyHandicapRange(killDifference, range, values, acc.counts.general)
    IN  IF ~isRadiant /\ ~isDire THEN acc
        ELSE IF teamWon
        THEN [acc EXCEPT !.totalMatches = @ + 1,
                         !.killSum = @ + killDifference,
                         !.durationSum = @ + match.duration,
                         !.counts.general = general,
                         !.victories = @ + 1,
                         !.counts.victories =
                             applyHandicapRange(killDifference, range, values, @)]
        ELSE [acc EXCEPT !.totalMatches = @ + 1,
                         !.killSum = @ + killDifference,
                         !.durationSum = @ + match.duration,
                         !.counts.general = general,
                         !.losses = @ + 1,
                         !.counts.losses =
                             applyHandicapRange(killDifference, range, values, @)]

\* matches.forEach(...) from element i on
RECURSIVE forEachMatch(_, _, _, _, _, _)
forEachMatch(i, acc, matches, teamId, range, values) ==
    IF i > Len(matches) THEN acc
    ELSE forEachMatch(i + 1,
                      calculateTeamHandicapDataStep(acc, matches[i], teamId, range, values),
                      matches, teamId, range, values)

\* the part of calculateTeamHandicapData after the loop: the returned
\* TeamHandicapData (avgKillDifference in hundredths, avgDurationMinutes in
\* tenths of a minute)
calculateTeamHandicapDataResult(acc, teamId, range) ==
    [team |-> teamId,
     totalMatches |-> acc.totalMatches,
     victories |-> acc.victories,
     losses |-> acc.losses,
     avgKillDifference |->
         IF acc.totalMatches # 0
         THEN RoundDivSigned(acc.killSum * 100, acc.totalMatches) ELSE 0,
     avgDurationMinutes |->
         IF acc.totalMatches # 0
         THEN RoundDiv(acc.durationSum * 10, acc.totalMatches * 60) ELSE 0,
     handicap |->
         [counts |-> acc.counts,
          percentages |->
              [victories |-> calculatePercentages(range, acc.counts.victories, acc.victories),
               losses |-> calculatePercentages(range, acc.counts.losses, acc.losses),
               general |-> calculatePercentages(range, acc.counts.general, acc.totalMatches)]]]

\* the whole function: the locals, the loop, the return value
calculateTeamHandicapData(matches, teamId, range) ==
    calculateTeamHandicapDataResult(
        forEachMatch(1, calculateTeamHandicapDataInit(range), matches, teamId, range,
                     handicapValuesOf(range)),
        teamId, range)

\* --------------------------------------------- patch general table (4.5)
\* initBucketsByTeam: one TeamBuckets per team of the lookup
initBucketsByTeam(teamSeq, range) ==
    [t \in RangeOf(teamSeq) |->
        [totalMatches |-> 0, victories |-> 0, losses |-> 0,
         counts |-> [victories |-> createBucketsGeneral(range),
                     losses |-> createBucketsGeneral(range),
                     general |-> createBucketsGeneral(range)],
         percentages |-> [victories |-> createBucketsGeneral(range),
                          losses |-> createBucketsGeneral(range),
                          general |-> createBucketsGeneral(range)]]]

\* the two locals of accumulateMatchForTeam
generalKillDifference(match, isRadiant) ==
    IF isRadiant THEN match.radiantScore - match.direScore
    ELSE match.direScore - match.radiantScore

\* variant: the side of the team is not looked at
generalTeamWonRadiantOnly(match, isRadiant) == match.radiantWin

generalTeamWon(match, isRadiant) ==
    IF isRadiant THEN match.radiantWin ELSE ~match.radiantWin

\* variant: the teams share one object as general bucket, so the counters
\* written for one team show up in the general bucket of every team
accumulateMatchForTeamShared(match, teamId, isRadiant, range, values, byTeam) ==
    IF teamId \notin DOMAIN byTeam THEN byTeam
    ELSE
    LET killDifference == generalKillDifference(match, isRadiant)
        teamWon == generalTeamWon(match, isRadiant)
        general == applyHandicapRangeGeneral(killDifference, range, values,
                                              byTeam[teamId].counts.general)
        own == IF teamWon
               THEN [byTeam[teamId] EXCEPT
                        !.totalMatches = @ + 1, !.victories = @ + 1,
                        !.counts.victories =
                            applyHandicapRangeGeneral(killDifference, range, values, @)]
               ELSE [byTeam[teamId] EXCEPT
                        !.totalMatches = @ + 1, !.losses = @ + 1,
                        !.counts.losses =
                            applyHandicapRangeGeneral(killDifference, range, values, @)]
    IN  [t \in DOMAIN byTeam |->
            [(IF t = teamId THEN own ELSE byTeam[t]) EXCEPT !.counts.general = general]]

\* variant: the call on the general bucket is missing
accumulateMatchForTeamNoGeneral(match, teamId, isRadiant, range, values, byTeam) ==
    IF teamId \notin DOMAIN byTeam THEN byTeam
    ELSE
    LET killDifference == generalKillDifference(match, isRadiant)
    IN  IF generalTeamWon(match, isRadiant)
        THEN [byTeam EXCEPT ![teamId].totalMatches = @ + 1,
                            ![teamId].victories = @ + 1,
                            ![teamId].counts.victories =
                                applyHandicapRangeGeneral(killDifference, range, values, @)]
        ELSE [byTeam EXCEPT ![teamId].totalMatches = @ + 1,
                            ![teamId].losses = @ + 1,
                            ![teamId].counts.losses =
                                applyHandicapRangeGeneral(killDifference, range, values, @)]

accumulateMatchForTeam(match, teamId, isRadiant, range, values, byTeam) ==
    IF teamId \notin DOMAIN byTeam THEN byTeam
    ELSE
    LET killDifference == generalKillDifference(match, isRadiant)
        teamWon == generalTeamWon(match, isRadiant)
        general == applyHandicapRangeGeneral(killDifference, range, values,
                                              byTeam[teamId].counts.general)
    IN  IF teamWon
        THEN [byTeam EXCEPT ![teamId].totalMatches = @ + 1,
                            ![teamId].counts.general = general,
                            ![teamId].victories = @ + 1,
                            ![teamId].counts.victories =
                                applyHandicapRangeGeneral(killDifference, range, values, @)]
        ELSE [byTeam EXCEPT ![teamId].totalMatches = @ + 1,
                            ![teamId].counts.general = general,
                            ![teamId].losses = @ + 1,
                            ![teamId].counts.losses =
                                applyHandicapRangeGeneral(killDifference, range, values, @)]

\* Array.prototype.sort((a, b) => b.stats.totalMatches - a.stats.totalMatches):
\* a stable sort, so a row goes behind every row that is not smaller
RECURSIVE InsertRow(_, _)
InsertRow(sorted, row) ==
    IF sorted = <<>> THEN <<row>>
    ELSE IF Head(sorted).stats.totalMatches >= row.stats.totalMatches
    THEN <<Head(sorted)>> \o InsertRow(Tail(sorted), row)
    ELSE <<row>> \o sorted

RECURSIVE SortLoop(_, _)
SortLoop(rest, sorted) ==
    IF rest = <<>> THEN sorted
    ELSE SortLoop(Tail(rest), InsertRow(sorted, Head(rest)))

\* variant: the rows stay in the order of the map
sortByTotalMatchesNone(rowSeq) == rowSeq

sortByTotalMatches(rowSeq) == SortLoop(rowSeq, <<>>)

\* the stats of one row with its percentages set (the map callback)
generalRowStats(stats, range) ==
    [stats EXCEPT !.percentages =
        [victories |-> calculatePercentagesGeneral(range, stats.counts.victories, stats.victories),
         losses |-> calculatePercentagesGeneral(range, stats.counts.losses, stats.losses),
         general |-> calculatePercentagesGeneral(range, stats.counts.general, stats.totalMatches)]]

\* filteredTeams.map(...).filter(Boolean), before the sort
RECURSIVE generalRowsOf(_, _, _)
generalRowsOf(filteredTeams, byTeam, range) ==
    IF filteredTeams = <<>> THEN <<>>
    ELSE (IF Head(filteredTeams) \in DOMAIN byTeam
          THEN <<[team |-> Head(filteredTeams),
                  stats |-> generalRowStats(byTeam[Head(filteredTeams)], range)]>>
          ELSE <<>>)
         \o generalRowsOf(Tail(filteredTeams), byTeam, range)

\* ------------------------------------------------ team handicap page
createStats(range) ==
    [totalMatches |-> 0, wins |-> 0, losses |-> 0,
     handicapStatsWins |-> [h \in RangeOf(range) |-> 0],
     handicapStatsLosses |-> [h \in RangeOf(range) |-> 0],
     percentagesWins |-> [h \in RangeOf(range) |-> 0],
     percentagesLosses |-> [h \in RangeOf(range) |-> 0],
     percentagesTotal |-> [h \in RangeOf(range) |-> 0]]

\* handicapRange.forEach: if (killDifference + Number(handicap) > 0)
\* stats[handicap] += 1   (every key exists: createStats used the same range)
RECURSIVE ApplyHandicapLoop(_, _, _, _)
ApplyHandicapLoop(i, killDifference, range, stats) ==
    IF i > Len(range) THEN stats
    ELSE ApplyHandicapLoop(i + 1, killDifference, range,
                           IF killDifference * 10 + NumberOf(range[i]) > 0
                           THEN [stats EXCEPT ![range[i]] = @ + 1]
                           ELSE stats)

applyHandicap(killDifference, range, stats) ==
    ApplyHandicapLoop(1, killDifference, range, stats)

finalizePercentages(stats, range) ==
    LET wins(h) == Get(stats.handicapStatsWins, h)
        losses(h) == Get(stats.handicapStatsLosses, h)
        set(old, new(_)) ==
            [h \in DOMAIN old \cup RangeOf(range) |->
                IF h \in RangeOf(range) THEN new(h) ELSE old[h]]
        pWins(h) == IF stats.wins # 0
                    THEN RoundDiv(wins(h) * 10000, stats.wins) ELSE 0
        pLosses(h) == IF stats.losses # 0
                      THEN RoundDiv(losses(h) * 10000, stats.losses) ELSE 0
        pTotal(h) == IF stats.wins + stats.losses # 0
                     THEN RoundDiv((wins(h) + losses(h)) * 10000,
                                   stats.wins + stats.losses)
                     ELSE 0
    IN  [stats EXCEPT !.percentagesWins = set(@, pWins),
                      !.percentagesLosses = set(@, pLosses),
                      !.percentagesTotal = set(@, pTotal)]

\* the locals of the forEach callback of TeamHandicapPage
teamIsRadiant(match, teamId) == match.radiantTeamId = teamId

teamWonOf(match, teamId) ==
    (teamIsRadiant(match, teamId) /\ match.radiantWin)
    \/ (~teamIsRadiant(match, teamId) /\ ~match.radiantWin)

teamKillDifference(match, teamId) ==
    IF teamIsRadiant(match, teamId) THEN match.radiantScore - match.direScore
    ELSE match.direScore - match.radiantScore

\* totalMatches += 1; wins or losses += 1 with applyHandicap on its map
addToStats(stats, teamWon, killDifference, range) ==
    IF teamWon
    THEN [stats EXCEPT !.totalMatches = @ + 1, !.wins = @ + 1,
                       !.handicapStatsWins = applyHandicap(killDifference, range, @)]
    ELSE [stats EXCEPT !.totalMatches = @ + 1, !.losses = @ + 1,
                       !.handicapStatsLosses = applyHandicap(killDifference, range, @)]

\* a Map<string, HandicapStats> is the sequence of its entries in insertion
\* order
MapHas(map, key) == \E i \in 1..Len(map) : map[i].id = key

MapIndex(map, key) == CHOOSE i \in 1..Len(map) : map[i].id = key

\* variant: the key is not tested, a match without a league (patch) id is
\* put into a group of its own
addToGroupAnyKey(map, key, teamWon, killDifference, range) ==
    LET created == IF MapHas(map, key) THEN map
                   ELSE Append(map, [id |-> key, stats |-> createStats(range)])
        i == MapIndex(created, key)
    IN  [created EXCEPT ![i].stats = addToStats(@, teamWon, killDifference, range)]

\* the per-league and the per-patch block of the callback
addToGroup(map, key, teamWon, killDifference, range) ==
    IF ~Truthy(key) THEN map
    ELSE LET created == IF MapHas(map, key) THEN map
                        ELSE Append(map, [id |-> key, stats |-> createStats(range)])
             i == MapIndex(created, key)
         IN  [created EXCEPT ![i].stats = addToStats(@, teamWon, killDifference, range)]

\* Array.from(map.entries()).map(...): finalizePercentages on the stats of
\* every entry (the objects of the map itself); the rows are then sorted
finalizeGroups(map, range) ==
    [i \in 1..Len(map) |->
        [id |-> map[i].id, stats |-> finalizePercentages(map[i].stats, range)]]

\* getMatchesByTeamForHandicap: radiant_team_id.eq.T or dire_team_id.eq.T
teamFilter(match, teamId) == match.radiantTeamId = teamId \/ match.direTeamId = teamId

\* ----------------------------------------- head-to-head (patch comparison)
\* let team1Wins = 0; let team2Wins = 0; let total = 0
headToHeadInit == [total |-> 0, team1Wins |-> 0, team2Wins |-> 0]

\* variant: only the assignment team1 radiant, team2 dire is a shared match
isMatchRadiantFirst(match, team1Id, team2Id) ==
    match.radiantTeamId = team1Id /\ match.direTeamId = team2Id

\* (radiant === team1.id && dire === team2.id)
\*   || (radiant === team2.id && dire === team1.id)
isMatch(match, team1Id, team2Id) ==
    \/ (match.radiantTeamId = team1Id /\ match.direTeamId = team2Id)
    \/ (match.radiantTeamId = team2Id /\ match.direTeamId = team1Id)

\* variant: the radiant-win flag alone decides, whatever side team1 is on
team1WonOfFlagOnly(match, team1Id) == match.radiantWin

\* variant: on the dire side team 1 wins whatever the flag says
team1WonOfDireAlways(match, team1Id) ==
    (match.radiantTeamId = team1Id /\ match.radiantWin)
    \/ match.radiantTeamId # team1Id

\* (team1IsRadiant && match.radiantWin) || (!team1IsRadiant && !match.radiantWin)
team1WonOf(match, team1Id) ==
    LET team1IsRadiant == match.radiantTeamId = team1Id
    IN  (team1IsRadiant /\ match.radiantWin) \/ (~team1IsRadiant /\ ~match.radiantWin)

\* the callback of matches.forEach in the headToHead closure
headToHeadStep(h, match, team1Id, team2Id) ==
    IF ~Truthy(match.radiantTeamId) \/ ~Truthy(match.direTeamId) THEN h
    ELSE IF ~isMatch(match, team1Id, team2Id) THEN h
    ELSE IF team1WonOf(match, team1Id)
    THEN [h EXCEPT !.total = @ + 1, !.team1Wins = @ + 1]
    ELSE [h EXCEPT !.total = @ + 1, !.team2Wins = @ + 1]

\* ------------------------------------------------ the rate limiter
\* new Map<string, RateLimitState>()
EmptyMap == [k \in {} |-> Null]

\* variant: every record is deleted
pruneExpiredAll(map, current) == EmptyMap

\* pruneExpired, with the value its now() read
pruneExpired(map, current) ==
    [k \in {key \in DOMAIN map : ~(map[key].resetAt <= current)} |-> map[k]]

\* variant: the record may exceed the limit by one
limitReachedAbove(record, limit) == record.count > limit

\* record.count >= limit
limitReached(record, limit) == record.count >= limit

\* rateLimit(key, limit, windowMs) on the map, with the values its two reads
\* of now() gave (pruneExpired reads first); the map after the call and the
\* RateLimitResult
rateLimit(map, key, limit, windowMs, pruneTime, current) ==
    LET pruned == pruneExpired(map, pruneTime)
    IN  IF key \notin DOMAIN pruned \/ pruned[key].resetAt <= current
        THEN [buckets |-> Put(pruned, key, [count |-> 1, resetAt |-> current + windowMs]),
              result |-> [allowed |-> TRUE, remaining |-> limit - 1,
                          resetAt |-> current + windowMs]]
        ELSE IF limitReached(pruned[key], limit)
        THEN [buckets |-> pruned,
              result |-> [allowed |-> FALSE, remaining |-> 0,
                          resetAt |-> pruned[key].resetAt]]
        ELSE [buckets |-> [pruned EXCEPT ![key].count = @ + 1],
              result |-> [allowed |-> TRUE,
                          remaining |-> limit - (pruned[key].count + 1),
                          resetAt |-> pruned[key].resetAt]]

\* ------------------------------------------------ the paged fetch
\* const pageSize = 1000
pageSize == 1000

\* variant: the range ends one row later
rangeToNext(from) == from + pageSize

\* the second argument of .range(from, from + pageSize - 1)
rangeTo(from) == from + pageSize - 1

\* what the store answers to .range(first, last): the rows of the ordered
\* selection with the 0-based positions first..last that exist
rowsInRange(table, first, last) ==
    SubSeq(table, first + 1, IF last + 1 < Len(table) THEN last + 1 ELSE Len(table))

\* ------------------------------------------------ the table's sort state
\* the SortKey values: { kind: "matches" }, { kind: "winrate" },
\* { kind: "handicap", handicap } (handicap is the empty label where the type
\* has none)
MatchesKey == [kind |-> "matches", handicap |-> <<>>]

WinrateKey == [kind |-> "winrate", handicap |-> <<>>]

HandicapKey(handicap) == [kind |-> "handicap", handicap |-> handicap]

\* variant: two handicap columns count as the same column
isSameKind(sortKey, nextKey) == sortKey.kind = nextKey.kind

\* const isSame = ... in handleSort
isSame(sortKey, nextKey) ==
    /\ sortKey.kind = nextKey.kind
    /\ \/ sortKey.kind # "handicap"
       \/ (nextKey.kind = "handicap" /\ sortKey.handicap = nextKey.handicap)

\* handleSort(nextKey) on the state (sortKey, sortDirection): the state after
\* its setState calls have been applied
handleSort(sortKey, sortDirection, nextKey) ==
    IF isSame(sortKey, nextKey)
    THEN [sortKey |-> sortKey,
          sortDirection |-> IF sortDirection = "asc" THEN "desc" ELSE "asc"]
    ELSE [sortKey |-> nextKey, sortDirection |-> "desc"]

\* ---------------------------------------------------------- the state
VARIABLES
    page,            \* the page serving the request
    pc,              \* "loop": between two callbacks of matches.forEach;
                     \* "body": a callback is to run on cur (compare, team);
                     \* "radiant", "dire": before the first and the second
                     \* call of the general table's callback; "done"
    team,            \* id of the team of the request (compare, team)
    teams,           \* getTeamsByIds(...): the team lookup (general)
    handicapRange,   \* labels, in order
    handicapValues,  \* handicapRange.map(Number) (compare, general)
    cur,             \* the match record the callback runs on, or NoMatch
    visited,         \* number of records visited
    participatingTeamIds, \* ids on either side of a visited record
                     \* (compare, general)
    acc,             \* locals of calculateTeamHandicapData (compare); for
                     \* the general table and the team page: the same
                     \* aggregator run over the matches of that page, per
                     \* team of the lookup resp. for the team of the page
    teamData,        \* its return value(s)
    bucketsByTeam,   \* general table: Map<teamId, TeamBuckets>
    rows,            \* general table: the sorted rows
    overallStats,    \* team page
    leagueStats,     \* team page: Map<leagueId, HandicapStats>
    patchStats,      \* team page: Map<patchId, HandicapStats>
    leagueRows,      \* team page: sorted rows
    patchRows,
    team2,           \* head-to-head: id of the second team of the request
    headToHead,      \* head-to-head: the tally for (team, team2)
    headToHeadSwapped, \* the tally of the request for (team2, team) over the
                     \* same matches
    matches,         \* calculateTeamHandicapData: the array it is called with
    order,           \* a rearrangement of the indices of that array
    inOrder,         \* the return value for matches
    reordered,       \* the return value for the rearranged array
    buckets,         \* rate limiter: Map<key, RateLimitState>
    clock,           \* Date.now()
    limit,           \* the limit every call is made with
    windowMs,        \* the window every call is made with
    result,          \* the last call: its key, the time it read, and its
                     \* RateLimitResult
    granted,         \* for every key and resetAt: the number of calls so far
                     \* that returned allowed = true with that resetAt
    fetchFn,         \* paged fetch: the function running
    table,           \* the rows the query selects, in the order of the query
    from,            \* local of the function
    results,         \* local of the function
    failed,          \* the last request came back with an error
    returned,        \* the return value, once the function has returned
    sortKey,         \* HandicapGeneralTable: useState sortKey
    sortDirection,   \* useState sortDirection
    clicks           \* the keys handleSort has been called with, in order

pageVars == <<page, pc, team, teams, handicapRange, handicapValues, cur, visited,
              participatingTeamIds, acc, teamData, bucketsByTeam, rows, overallStats,
              leagueStats, patchStats, leagueRows, patchRows, team2, headToHead,
              headToHeadSwapped>>

orderVars == <<matches, order, inOrder, reordered>>

limiterVars == <<buckets, clock, limit, windowMs, result, granted>>

fetchVars == <<fetchFn, table, from, results, failed, returned>>

sortVars == <<sortKey, sortDirection, clicks>>

\* the variables of the library functions and of the table component, which
\* no page loop touches
libVars == <<orderVars, limiterVars, fetchVars, sortVars>>

vars == <<pageVars, libVars>>

compareVars == <<acc, teamData>>
generalVars == <<bucketsByTeam, rows>>
teamVars == <<overallStats, leagueStats, patchStats, leagueRows, patchRows>>
requestVars == <<page, team, teams, handicapRange, handicapValues>>
loopVars == <<visited, participatingTeamIds>>
headVars == <<team2, headToHead, headToHeadSwapped>>

Pages == {"compare", "general", "team", "headToHead"}

\* the two teams of a head-to-head request
HeadTeams == {"t1", "t2"}

\* the team of a comparison request: one that plays, one that never does
CompareTeams == {"t1", "tx"}

\* the lookup of the general table, in the order getTeamsByIds returns it
TeamLookups == {<<>>, <<"t1">>, <<"t2", "t1">>}

\* the search filter of the general table keeps a subsequence of the lookup:
\* all of it (no search), or the teams whose name matches, here the last
Filtered(teamSeq) ==
    {teamSeq} \cup {<<teamSeq[i]>> : i \in {Len(teamSeq)} \ {0}}

MatchRows(sides, scores, durations, keys) ==
    {[radiantTeamId |-> sd[1], direTeamId |-> sd[2],
      radiantScore |-> sc[1], direScore |-> sc[2], radiantWin |-> w,
      duration |-> d, leagueId |-> k[1], patchId |-> k[2]] :
        sd \in sides, sc \in scores, w \in BOOLEAN, d \in durations, k \in keys}

\* rows getMatchesByPatch delivers (mapMatch); all of one patch
PatchMatches == MatchRows(PatchSides, ScorePairs, Durations, {<<"l1", "p1">>})

\* the same rows for the general table, which does not read the duration
GeneralMatches == MatchRows(PatchSides, ScorePairs, {1800}, {<<"l1", "p1">>})

\* rows of the matches table the team query is evaluated on (its select has
\* no duration column, so mapMatch sets duration 0)
TeamStoreRows ==
    MatchRows(TeamSides, TeamScorePairs, {0}, GroupKeys)
    \cup MatchRows({<<"t1", "t1">>}, TeamScorePairs, {0}, {<<"l1", "p1">>})
    \cup MatchRows(OtherSides, {<<15, 10>>}, {0}, {<<"l1", "p1">>})

\* rows of a patch the head-to-head loop can meet: the two teams on either
\* side, a side missing, a third team on one side, a team against itself
HeadMatches == MatchRows(HeadSides, TeamScorePairs, {1800}, {<<"l1", "p1">>})

NoMatch == [radiantTeamId |-> Null, direTeamId |-> Null, radiantScore |-> 0,
            direScore |-> 0, radiantWin |-> FALSE, duration |-> 0,
            leagueId |-> "", patchId |-> ""]

Unused == <<>>

\* calculateTeamHandicapData is not called on its own
OrderIdle ==
    /\ matches = Unused /\ order = Unused
    /\ inOrder = Unused /\ reordered = Unused

\* no request passes the rate limiter
LimiterIdle ==
    /\ buckets = Unused /\ clock = 0 /\ limit = 0 /\ windowMs = 0
    /\ result = Unused /\ granted = Unused

\* no paged fetch is running
FetchIdle ==
    /\ fetchFn = Null /\ table = <<>> /\ from = 0 /\ results = <<>>
    /\ failed = FALSE /\ returned = [done |-> FALSE, value |-> <<>>]

\* no table is mounted
SortIdle == sortKey = Unused /\ sortDirection = Unused /\ clicks = <<>>

\* no library function is under test
LibIdle == OrderIdle /\ LimiterIdle /\ FetchIdle /\ SortIdle

Init ==
    /\ page \in Pages
    /\ pc = "loop"
    /\ cur = NoMatch
    /\ visited = 0
    /\ participatingTeamIds = {}
    /\ team \in CASE page = "compare" -> CompareTeams
                  [] page = "team" -> {"t1"}
                  [] page = "headToHead" -> HeadTeams
                  [] OTHER -> {Null}
    /\ teams \in (IF page = "general" THEN TeamLookups ELSE {<<>>})
    /\ team2 \in (IF page = "headToHead" THEN HeadTeams ELSE {Null})
    /\ headToHead = IF page = "headToHead" THEN headToHeadInit ELSE Unused
    /\ headToHeadSwapped = IF page = "headToHead" THEN headToHeadInit ELSE Unused
    /\ handicapRange = CASE page \in {"compare", "headToHead"} -> buildHandicapRange
                          [] page = "general" -> buildHandicapRangeGeneral
                          [] OTHER -> buildHandicapRangeTeam
    /\ handicapValues = IF page \in {"team", "headToHead"} THEN Unused
                        ELSE handicapValuesOf(handicapRange)
    /\ acc = CASE page \in {"compare", "team"} ->
                      calculateTeamHandicapDataInit(handicapRange)
               [] page = "general" ->
                      [t \in RangeOf(teams) |->
                          calculateTeamHandicapDataInit(handicapRange)]
               [] OTHER -> Unused
    /\ teamData = Unused
    /\ bucketsByTeam = IF page = "general" THEN initBucketsByTeam(teams, handicapRange)
                       ELSE Unused
    /\ rows = <<>>
    /\ overallStats = IF page = "team" THEN createStats(handicapRange) ELSE Unused
    /\ leagueStats = <<>>
    /\ patchStats = <<>>
    /\ leagueRows = <<>>
    /\ patchRows = <<>>
    /\ LibIdle

\* ---------------------------------------------------------- the actions
\* the rows the loop of a page can meet
Population(pg) ==
    CASE pg = "team" -> TeamStoreRows
      [] pg = "headToHead" -> HeadMatches
      [] pg = "general" -> GeneralMatches
      [] OTHER -> PatchMatches

\* the callback of the reduce that collects the ids of the playing teams
addParticipants(ids, match) ==
    ids \cup (IF Truthy(match.radiantTeamId) THEN {match.radiantTeamId} ELSE {})
        \cup (IF Truthy(match.direTeamId) THEN {match.direTeamId} ELSE {})

\* the next element of the population is met: matches.forEach takes it (and
\* the reduce over the same array has collected its team ids)
Visit(m) ==
    /\ pc = "loop"
    /\ visited < (IF page = "team" THEN MaxTeamMatches ELSE MaxMatches)
    /\ cur' = m
    /\ visited' = visited + 1
    /\ participatingTeamIds' =
           IF page = "team" THEN participatingTeamIds
           ELSE addParticipants(participatingTeamIds, m)
    /\ pc' = IF page = "general" THEN "radiant" ELSE "body"
    /\ UNCHANGED <<libVars, requestVars, headVars, compareVars, generalVars, teamVars>>

\* patch comparison: the forEach callback of calculateTeamHandicapData
CompareStep ==
    /\ page = "compare" /\ pc = "body"
    /\ acc' = calculateTeamHandicapDataStep(acc, cur, team, handicapRange, handicapValues)
    /\ cur' = NoMatch
    /\ pc' = "loop"
    /\ UNCHANGED <<libVars, loopVars, teamData, requestVars, headVars, generalVars, teamVars>>

\* patch comparison: the loop is over, the result is returned
CompareFinish ==
    /\ page = "compare" /\ pc = "loop"
    /\ teamData' = calculateTeamHandicapDataResult(acc, team, handicapRange)
    /\ pc' = "done"
    /\ UNCHANGED <<libVars, acc, cur, loopVars, requestVars, headVars, generalVars, teamVars>>

\* general table: the callback handles the radiant side of the match
GeneralRadiant ==
    /\ page = "general" /\ pc = "radiant"
    /\ bucketsByTeam' =
           IF Truthy(cur.radiantTeamId)
           THEN accumulateMatchForTeam(cur, cur.radiantTeamId, TRUE, handicapRange,
                                       handicapValues, bucketsByTeam)
           ELSE bucketsByTeam
    /\ pc' = "dire"
    /\ UNCHANGED <<libVars, rows, cur, loopVars, requestVars, headVars, compareVars, teamVars>>

\* general table: the callback handles the dire side of the same match
GeneralDire ==
    /\ page = "general" /\ pc = "dire"
    /\ bucketsByTeam' =
           IF Truthy(cur.direTeamId)
           THEN accumulateMatchForTeam(cur, cur.direTeamId, FALSE, handicapRange,
                                       handicapValues, bucketsByTeam)
           ELSE bucketsByTeam
    /\ acc' = [t \in DOMAIN acc |->
                  calculateTeamHandicapDataStep(acc[t], cur, t, handicapRange,
                                                handicapValues)]
    /\ cur' = NoMatch
    /\ pc' = "loop"
    /\ UNCHANGED <<libVars, rows, loopVars, requestVars, headVars, teamData, teamVars>>

\* general table: the rows of the filtered teams, with percentages, sorted.
\* The lookup was fetched for the ids occurring in the population, so each
\* of its teams has played.
GeneralFinish(filteredTeams) ==
    /\ page = "general" /\ pc = "loop"
    /\ \A t \in RangeOf(teams) : bucketsByTeam[t].totalMatches > 0
    /\ rows' = sortByTotalMatches(generalRowsOf(filteredTeams, bucketsByTeam, handicapRange))
    /\ bucketsByTeam' =
           [t \in DOMAIN bucketsByTeam |->
               IF t \in RangeOf(filteredTeams)
               THEN generalRowStats(bucketsByTeam[t], handicapRange)
               ELSE bucketsByTeam[t]]
    /\ teamData' = [t \in DOMAIN acc |->
                       calculateTeamHandicapDataResult(acc[t], t, handicapRange)]
    /\ pc' = "done"
    /\ UNCHANGED <<libVars, cur, loopVars, requestVars, headVars, acc, teamVars>>

\* team page: the team query meets row cur of the matches table; a row that
\* passes its filter is delivered and the forEach callback runs on it
TeamStep ==
    /\ page = "team" /\ pc = "body"
    /\ IF teamFilter(cur, team)
       THEN LET teamWon == teamWonOf(cur, team)
                killDifference == teamKillDifference(cur, team)
            IN  /\ overallStats' = addToStats(overallStats, teamWon, killDifference,
                                              handicapRange)
                /\ leagueStats' = addToGroup(leagueStats, cur.leagueId, teamWon,
                                             killDifference, handicapRange)
                /\ patchStats' = addToGroup(patchStats, cur.patchId, teamWon,
                                            killDifference, handicapRange)
                /\ acc' = calculateTeamHandicapDataStep(
                              acc, cur, team, handicapRange,
                              handicapValuesOf(handicapRange))
       ELSE UNCHANGED <<overallStats, leagueStats, patchStats, acc>>
    /\ cur' = NoMatch
    /\ pc' = "loop"
    /\ UNCHANGED <<libVars, loopVars, leagueRows, patchRows, requestVars, headVars, teamData,
                   generalVars>>

\* team page: rows per league and per patch, then the overall percentages
TeamFinish ==
    /\ page = "team" /\ pc = "loop"
    /\ leagueStats' = finalizeGroups(leagueStats, handicapRange)
    /\ leagueRows' = sortByTotalMatches(leagueStats')
    /\ patchStats' = finalizeGroups(patchStats, handicapRange)
    /\ patchRows' = sortByTotalMatches(patchStats')
    /\ overallStats' = finalizePercentages(overallStats, handicapRange)
    /\ teamData' = calculateTeamHandicapDataResult(acc, team, handicapRange)
    /\ pc' = "done"
    /\ UNCHANGED <<libVars, cur, loopVars, requestVars, headVars, acc, generalVars>>

\* head-to-head: the forEach callback, for the request (team, team2) and
\* for the request with the two teams exchanged
HeadStep ==
    /\ page = "headToHead" /\ pc = "body"
    /\ headToHead' = headToHeadStep(headToHead, cur, team, team2)
    /\ headToHeadSwapped' = headToHeadStep(headToHeadSwapped, cur, team2, team)
    /\ cur' = NoMatch
    /\ pc' = "loop"
    /\ UNCHANGED <<libVars, loopVars, team2, requestVars, compareVars, generalVars, teamVars>>

\* head-to-head: the loop is over and { total, team1Wins, team2Wins } is
\* returned; both teams were found in the lookup of the playing teams
HeadFinish ==
    /\ page = "headToHead" /\ pc = "loop"
    /\ team \in participatingTeamIds /\ team2 \in participatingTeamIds
    /\ pc' = "done"
    /\ UNCHANGED <<libVars, cur, loopVars, headVars, requestVars, compareVars, generalVars,
                   teamVars>>

Next ==
    \/ \E m \in Population(page) : Visit(m)
    \/ CompareStep
    \/ CompareFinish
    \/ GeneralRadiant
    \/ GeneralDire
    \/ \E f \in Filtered(teams) : GeneralFinish(f)
    \/ TeamStep
    \/ TeamFinish
    \/ HeadStep
    \/ HeadFinish

Spec == Init /\ [][Next]_vars

\* ======================================================== properties
\* the labels of section 4.1, written out
ExpectedRange ==
    << <<"-", "1", "6", ".", "5">>, <<"-", "1", "4", ".", "5">>,
       <<"-", "1", "2", ".", "5">>, <<"-", "1", "0", ".", "5">>,
       <<"-", "8", ".", "5">>, <<"-", "6", ".", "5">>, <<"-", "4", ".", "5">>,
       <<"-", "2", ".", "5">>, <<"-", "0", ".", "5">>,
       <<"0", ".", "5">>, <<"2", ".", "5">>, <<"4", ".", "5">>,
       <<"6", ".", "5">>, <<"8", ".", "5">>, <<"1", "0", ".", "5">>,
       <<"1", "2", ".", "5">>, <<"1", "4", ".", "5">>, <<"1", "6", ".", "5">> >>

\* the numeric values (tenths) of the labels of the request's range
RangeValues == [i \in 1..Len(handicapRange) |-> NumberOf(handicapRange[i])]

\* the pairs of (index, value) entries of a sequence of values
ValuePairs(v) == {<<i, v[i]>> : i \in 1..Len(v)} \X {<<i, v[i]>> : i \in 1..Len(v)}

\* every bucket map of the page's state, as a set
BucketMaps ==
    CASE page = "compare" ->
           {acc.counts.victories, acc.counts.losses, acc.counts.general}
      [] page = "general" ->
           UNION {{bucketsByTeam[t].counts.victories, bucketsByTeam[t].counts.losses,
                   bucketsByTeam[t].counts.general, bucketsByTeam[t].percentages.victories,
                   bucketsByTeam[t].percentages.losses, bucketsByTeam[t].percentages.general} :
                  t \in DOMAIN bucketsByTeam}
      [] page = "team" ->
           LET mapsOf(st) == {st.handicapStatsWins, st.handicapStatsLosses,
                              st.percentagesWins, st.percentagesLosses,
                              st.percentagesTotal}
           IN  mapsOf(overallStats)
               \cup UNION {mapsOf(leagueStats[i].stats) : i \in 1..Len(leagueStats)}
               \cup UNION {mapsOf(patchStats[i].stats) : i \in 1..Len(patchStats)}
      [] OTHER -> {}

\* C1: buildHandicapRange always yields the same 18 labels -16.5, -14.5, ...,
\* -0.5, 0.5, 2.5, ..., 16.5 in this order: strictly increasing, nine
\* negative values then nine positive ones, none zero, each with fractional
\* part .5 (on the patch comparison page and on the team handicap page).
C1_RangeDeterminism ==
    page \in {"compare", "team"} =>
        /\ handicapRange = ExpectedRange
        /\ Len(handicapRange) = 18
        /\ RangeValues = [i \in 1..18 |-> IF i <= 9 THEN -165 + 20 * (i - 1)
                                          ELSE 5 + 20 * (i - 10)]
        /\ \A h \in RangeOf(RangeValues) : h # 0 /\ h % 10 = 5
        /\ \A pr \in {<<h1, h2>> \in ValuePairs(RangeValues) : h1[1] < h2[1]} :
               pr[1][2] < pr[2][2]

\* the range has been built and a population has been aggregated with it
C1_Witness ==
    /\ page = "compare" /\ pc = "done" /\ visited > 0
    /\ DOMAIN teamData.handicap.counts.general = RangeOf(ExpectedRange)

\* C2: the three implementations of buildHandicapRange produce the same
\* labels in the same order, and within one request every grouping (overall,
\* per league, per patch, per team) is keyed by the labels of that one range.
C2_SameRangeEverywhere ==
    /\ handicapRange = buildHandicapRange
    /\ handicapRange = buildHandicapRangeGeneral
    /\ handicapRange = buildHandicapRangeTeam
    /\ \A b \in BucketMaps : DOMAIN b = RangeOf(handicapRange)
    /\ \A i \in 1..Len(leagueRows) :
           DOMAIN leagueRows[i].stats.percentagesTotal = RangeOf(handicapRange)
    /\ \A i \in 1..Len(patchRows) :
           DOMAIN patchRows[i].stats.percentagesTotal = RangeOf(handicapRange)

\* the team page has produced an overall, a per-league and a per-patch
\* grouping in one request
C2_Witness ==
    /\ page = "team" /\ pc = "done"
    /\ overallStats.totalMatches > 0
    /\ Len(leagueRows) > 0 /\ Len(patchRows) > 0

\* integer kill differentials the range is tried against
MaxKillDiff == 20

\* the signed kill differentials of the two sides of the match cur
DiffsOf(m) == {m.radiantScore - m.direScore, m.direScore - m.radiantScore}

\* the differentials the range of a state is tried against: every integer of
\* the interval when the range has just been built, and those of the match
\* at hand while the loop runs
DiffsToTry ==
    IF visited = 0 THEN -MaxKillDiff..MaxKillDiff ELSE DiffsOf(cur)

\* C3: for every integer kill differential d and every handicap h of the
\* range d + h is never 0, so exactly one of d + h > 0 and d + h < 0 holds.
C3_NoTie ==
    \A h \in RangeOf(RangeValues) :
        \A d \in DiffsToTry :
            /\ d * 10 + h # 0
            /\ Covered(d, h) = ~(d * 10 + h < 0)

\* a match with equal scores (kill differential 0) is being accumulated
C3_Witness ==
    /\ page = "compare" /\ pc = "body"
    /\ cur.radiantScore = cur.direScore
    /\ cur.radiantTeamId = team

\* the labels of the range in pairs of neighbours (lower, upper)
Neighbours == {<<handicapRange[i], handicapRange[i + 1]>> : i \in 1..(Len(handicapRange) - 1)}

\* the handicaps whose counter grew from old to new are an upper segment of
\* the range: with a label, the next larger one
GrewOnSuffix(old, new) ==
    \A n \in Neighbours : new[n[1]] > old[n[1]] => new[n[2]] > old[n[2]]

\* the stats of entry i of a Map of the team page, zero if not yet created
GroupStats(map, i) ==
    IF i <= Len(map) THEN map[i].stats ELSE createStats(handicapRange)

\* the pairs (old, new) of every counter map across one step
CounterSteps ==
    CASE page = "compare" ->
           {<<acc.counts.victories, acc'.counts.victories>>,
            <<acc.counts.losses, acc'.counts.losses>>,
            <<acc.counts.general, acc'.counts.general>>}
      [] page = "general" ->
           UNION {{<<bucketsByTeam[t].counts.victories, bucketsByTeam'[t].counts.victories>>,
                   <<bucketsByTeam[t].counts.losses, bucketsByTeam'[t].counts.losses>>,
                   <<bucketsByTeam[t].counts.general, bucketsByTeam'[t].counts.general>>} :
                  t \in DOMAIN bucketsByTeam}
      [] page = "team" ->
           {<<overallStats.handicapStatsWins, overallStats'.handicapStatsWins>>,
            <<overallStats.handicapStatsLosses, overallStats'.handicapStatsLosses>>}
           \cup UNION {{<<GroupStats(leagueStats, i).handicapStatsWins,
                            leagueStats'[i].stats.handicapStatsWins>>,
                          <<GroupStats(leagueStats, i).handicapStatsLosses,
                            leagueStats'[i].stats.handicapStatsLosses>>} :
                        i \in 1..Len(leagueStats')}
           \cup UNION {{<<GroupStats(patchStats, i).handicapStatsWins,
                            patchStats'[i].stats.handicapStatsWins>>,
                          <<GroupStats(patchStats, i).handicapStatsLosses,
                            patchStats'[i].stats.handicapStatsLosses>>} :
                        i \in 1..Len(patchStats')}
      [] OTHER -> {}

\* C4: monotonic coverage: for a fixed kill differential, if d + h > 0 holds
\* for a handicap of the range it holds for every larger one, so the
\* handicaps one call of the accumulator increments are an upper segment of
\* the ordered range.
C4_MonotonicCoverage ==
    [][/\ \A d \in DiffsOf(cur) :
            \A n \in Neighbours :
                Covered(d, NumberOf(n[1])) => Covered(d, NumberOf(n[2]))
       /\ \A st \in CounterSteps : GrewOnSuffix(st[1], st[2])]_vars

\* one match incremented a proper, non-empty upper segment of the range
C4_Witness ==
    /\ page = "compare" /\ pc = "loop" /\ acc.totalMatches = 1
    /\ acc.counts.general[ExpectedRange[1]] = 0
    /\ acc.counts.general[ExpectedRange[12]] = 0
    /\ acc.counts.general[ExpectedRange[13]] = 1
    /\ acc.counts.general[ExpectedRange[18]] = 1

\* the team is on the side the radiant-win flag names
OnWinningSide(m, t) ==
    (m.radiantWin /\ m.radiantTeamId = t) \/ (~m.radiantWin /\ m.direTeamId = t)

\* from old to new one match was added to general and to exactly one of
\* victories (if won) and losses (otherwise)
AddedToOneCategory(old, new, won) ==
    /\ new.totalMatches = old.totalMatches + 1
    /\ new.victories = old.victories + (IF won THEN 1 ELSE 0)
    /\ new.losses = old.losses + (IF won THEN 0 ELSE 1)
    /\ IF won THEN new.counts.losses = old.counts.losses
              ELSE new.counts.victories = old.counts.victories
    /\ \A h \in DOMAIN old.counts.general :
           new.counts.general[h] - old.counts.general[h]
             = IF won THEN new.counts.victories[h] - old.counts.victories[h]
                      ELSE new.counts.losses[h] - old.counts.losses[h]

\* general >= victories and general >= losses at every handicap
GeneralDominates(st) ==
    \A h \in DOMAIN st.counts.general :
        /\ st.counts.general[h] >= st.counts.victories[h]
        /\ st.counts.general[h] >= st.counts.losses[h]

\* C5: category partition: every participant match the aggregator processes
\* goes into general and into exactly one of victory and loss (victory iff
\* the team won); after any sequence of matches the general count of every
\* handicap is >= its victory count and >= its loss count.
C5_CategoryPartition ==
    /\ [](/\ page = "compare" => GeneralDominates(acc)
          /\ page = "general" =>
                \A t \in DOMAIN bucketsByTeam : GeneralDominates(bucketsByTeam[t]))
    /\ [][/\ (page = "compare" /\ pc = "body"
               /\ (cur.radiantTeamId = team \/ cur.direTeamId = team))
              => AddedToOneCategory(acc, acc', OnWinningSide(cur, team))
          /\ (page = "general" /\ pc = "radiant"
               /\ cur.radiantTeamId \in DOMAIN bucketsByTeam)
              => AddedToOneCategory(bucketsByTeam[cur.radiantTeamId],
                                    bucketsByTeam'[cur.radiantTeamId],
                                    cur.radiantWin)
          /\ (page = "general" /\ pc = "dire"
               /\ cur.direTeamId \in DOMAIN bucketsByTeam)
              => AddedToOneCategory(bucketsByTeam[cur.direTeamId],
                                    bucketsByTeam'[cur.direTeamId],
                                    ~cur.radiantWin)]_vars

\* the comparison has counted a victory and a loss whose differentials are
\* covered at some handicap
C5_Witness ==
    /\ page = "compare" /\ pc = "loop"
    /\ acc.victories = 1 /\ acc.losses = 1
    /\ acc.counts.victories[ExpectedRange[18]] = 1
    /\ acc.counts.losses[ExpectedRange[18]] = 1
    /\ acc.counts.general[ExpectedRange[18]] = 2

\* the id t is on neither side of the match m
NotPlaying(m, t) == m.radiantTeamId # t /\ m.direTeamId # t

\* C6: a match in which the team is on neither side (also one without any
\* team id) contributes nothing to the team's summary, on the patch
\* comparison page, in the patch general table and on the team handicap page.
C6_NonParticipantIgnored ==
    [][/\ (page = "compare" /\ pc = "body" /\ NotPlaying(cur, team))
           => acc' = acc
       /\ (page = "general" /\ pc \in {"radiant", "dire"})
           => \A t \in DOMAIN bucketsByTeam :
                  NotPlaying(cur, t) => bucketsByTeam'[t] = bucketsByTeam[t]
       /\ (page = "team" /\ pc = "body" /\ NotPlaying(cur, team))
           => /\ overallStats' = overallStats
              /\ leagueStats' = leagueStats
              /\ patchStats' = patchStats]_vars

\* the comparison for a team has met two matches without any team id and
\* has counted none
C6_Witness ==
    /\ page = "compare" /\ pc = "loop" /\ team = "t1"
    /\ visited >= 2 /\ acc.totalMatches = 0
    /\ participatingTeamIds = {}

\* ---- C7
\* p is count / total x 100 rounded to two decimals (p in hundredths), and
\* 0 when total is 0
IsPercentage(p, count, total) ==
    IF total = 0 THEN p = 0
    ELSE 2 * Abs(p * total - count * 10000) <= total

\* the summary of the team page's HandicapStats in the shape of the other
\* two pages
AsSummary(stats) ==
    [totalMatches |-> stats.totalMatches,
     victories |-> stats.wins,
     losses |-> stats.losses,
     counts |-> [victories |-> stats.handicapStatsWins,
                 losses |-> stats.handicapStatsLosses,
                 general |-> [h \in DOMAIN stats.handicapStatsWins |->
                                 stats.handicapStatsWins[h]
                                 + stats.handicapStatsLosses[h]]],
     percentages |-> [victories |-> stats.percentagesWins,
                      losses |-> stats.percentagesLosses,
                      general |-> stats.percentagesTotal]]

\* every summary a finished page has put out
Summaries ==
    CASE page = "compare" ->
             {[totalMatches |-> teamData.totalMatches,
               victories |-> teamData.victories,
               losses |-> teamData.losses,
               counts |-> teamData.handicap.counts,
               percentages |-> teamData.handicap.percentages]}
      [] page = "general" ->
             {[totalMatches |-> rows[i].stats.totalMatches,
               victories |-> rows[i].stats.victories,
               losses |-> rows[i].stats.losses,
               counts |-> rows[i].stats.counts,
               percentages |-> rows[i].stats.percentages] : i \in 1..Len(rows)}
      [] page = "team" ->
             {AsSummary(overallStats)}
             \cup {AsSummary(leagueRows[i].stats) : i \in 1..Len(leagueRows)}
             \cup {AsSummary(patchRows[i].stats) : i \in 1..Len(patchRows)}
      [] OTHER -> {}

\* scenario 3: the summary is of one win by 5 kills and one loss by 5 kills
\* (a win by 5 is covered at -4.5 and not at -6.5, a loss by 5 is covered at
\* +6.5 and not at +4.5)
WinAndLossByFive(s) ==
    /\ s.totalMatches = 2 /\ s.victories = 1 /\ s.losses = 1
    /\ s.counts.victories[ExpectedRange[7]] = 1
    /\ s.counts.victories[ExpectedRange[6]] = 0
    /\ s.counts.losses[ExpectedRange[13]] = 1
    /\ s.counts.losses[ExpectedRange[12]] = 0

\* C7: on every page each percentage is the bucket count of the handicap
\* divided by the total of its category (victories, losses, all matches of
\* the team) times 100, rounded to two decimals, and 0 when that total is 0;
\* one win by 5 and one loss by 5 give exactly 50.00 in the general category
\* at handicap +0.5.
C7_PercentageFormula ==
    pc = "done" =>
        \A s \in Summaries :
            /\ \A h \in RangeOf(handicapRange) :
                   /\ IsPercentage(s.percentages.victories[h],
                                   s.counts.victories[h], s.victories)
                   /\ IsPercentage(s.percentages.losses[h],
                                   s.counts.losses[h], s.losses)
                   /\ IsPercentage(s.percentages.general[h],
                                   s.counts.general[h], s.totalMatches)
            /\ WinAndLossByFive(s)
                   => s.percentages.general[ExpectedRange[10]] = 5000

\* the comparison has summarised one win by 5 and one loss by 5
C7_Witness ==
    /\ page = "compare" /\ pc = "done" /\ visited = 2
    /\ \E s \in Summaries : WinAndLossByFive(s)

\* ---- C8
\* every percentage of the summary is 0, in all three categories, at every
\* handicap of the range
AllPercentagesZero(s) ==
    \A c \in {"victories", "losses", "general"} :
        /\ DOMAIN s.percentages[c] = RangeOf(handicapRange)
        /\ \A h \in RangeOf(handicapRange) : s.percentages[c][h] = 0

\* C8: when the population is empty every derived statistic is 0: all
\* percentages of all three categories, the average kill differential and
\* the average duration (no division by a zero total yields anything else).
C8_EmptyPopulation ==
    (pc = "done" /\ visited = 0) =>
        /\ \A s \in Summaries : AllPercentagesZero(s)
        /\ page = "compare" =>
               /\ teamData.avgKillDifference = 0
               /\ teamData.avgDurationMinutes = 0
               /\ teamData.totalMatches = 0
        /\ page = "team" => leagueRows = <<>> /\ patchRows = <<>>
        /\ page = "general" => rows = <<>>

\* the comparison has summarised an empty population
C8_Witness ==
    /\ page = "compare" /\ pc = "done" /\ visited = 0
    /\ teamData.totalMatches = 0

\* ---- C9
\* every bucket count of the summary is 0
AllCountsZero(s) ==
    \A c \in {"victories", "losses", "general"} :
        /\ DOMAIN s.counts[c] = RangeOf(handicapRange)
        /\ \A h \in RangeOf(handicapRange) : s.counts[c][h] = 0

\* C9: over a non-empty population in which the team is on neither side of
\* any match (the id may be unknown) calculateTeamHandicapData returns a
\* complete summary: totalMatches, victories, losses, every bucket count and
\* every percentage are 0.
C9_TeamWithoutMatches ==
    (page = "compare" /\ pc = "done" /\ visited > 0
     /\ team \notin participatingTeamIds) =>
        /\ teamData.team = team
        /\ teamData.totalMatches = 0
        /\ teamData.victories = 0
        /\ teamData.losses = 0
        /\ teamData.avgKillDifference = 0
        /\ teamData.avgDurationMinutes = 0
        /\ \A s \in Summaries : AllCountsZero(s) /\ AllPercentagesZero(s)

\* the comparison for an unknown id is done over matches of other teams
C9_Witness ==
    /\ page = "compare" /\ pc = "done" /\ team = "tx"
    /\ visited = 2 /\ participatingTeamIds = {"t1", "t2"}
    /\ teamData.totalMatches = 0

\* ---- C10
\* the rows are in descending order of totalMatches
Descending(rowSeq) ==
    \A i \in 1..(Len(rowSeq) - 1) :
        rowSeq[i].stats.totalMatches >= rowSeq[i + 1].stats.totalMatches

\* C10: the rows per league and per patch of the team page and the rows per
\* team of the general table are put out in descending order of
\* totalMatches.
C10_RowsDescending ==
    pc = "done" =>
        /\ Descending(rows)
        /\ Descending(leagueRows)
        /\ Descending(patchRows)

\* the team page has put the league met second in front of the league met
\* first, which has fewer matches
C10_Witness ==
    /\ page = "team" /\ pc = "done"
    /\ Len(leagueRows) = 2
    /\ leagueRows[1].id = leagueStats[2].id
    /\ leagueRows[1].stats.totalMatches > leagueRows[2].stats.totalMatches

\* ---- C11
\* C11: over the same matches the head-to-head total for (A, B) equals the
\* total for (B, A), and in each of the two results team1Wins + team2Wins
\* is the total.
C11_HeadToHeadSymmetry ==
    page = "headToHead" =>
        /\ headToHead.total = headToHeadSwapped.total
        /\ headToHead.team1Wins + headToHead.team2Wins = headToHead.total
        /\ headToHeadSwapped.team1Wins + headToHeadSwapped.team2Wins
               = headToHeadSwapped.total

\* two distinct teams have met twice, once on either side, and each has won
\* one of the matches
C11_Witness ==
    /\ page = "headToHead" /\ pc = "done" /\ team # team2
    /\ headToHead.total = 2 /\ headToHead.team1Wins = 1
    /\ headToHeadSwapped.team1Wins = 1
    /\ participatingTeamIds = {"t1", "t2"}

\* ---- C12
\* the match has team a on one side and team b on the other
OppositeSides(m, a, b) ==
    \/ (m.radiantTeamId = a /\ m.direTeamId = b)
    \/ (m.radiantTeamId = b /\ m.direTeamId = a)

\* the id on the side the radiant-win flag names
WinnerId(m) == IF m.radiantWin THEN m.radiantTeamId ELSE m.direTeamId

\* C12: the head-to-head tally counts a match exactly when the two teams are
\* on opposite sides of it (a match with a side missing or with another team
\* is not counted), the win goes to the team on the side the radiant-win
\* flag names, and without a shared match the result is total = 0,
\* team1Wins = 0, team2Wins = 0.
C12_HeadToHeadTally ==
    /\ [](page = "headToHead" =>
            /\ headToHead \in [total : 0..visited, team1Wins : 0..visited,
                                team2Wins : 0..visited]
            /\ (visited = 0 => headToHead = headToHeadInit))
    /\ [][(page = "headToHead" /\ pc = "body") =>
            IF OppositeSides(cur, team, team2)
            THEN /\ Truthy(cur.radiantTeamId) /\ Truthy(cur.direTeamId)
                 /\ headToHead'.total = headToHead.total + 1
                 /\ \/ /\ WinnerId(cur) = team
                        /\ headToHead'.team1Wins = headToHead.team1Wins + 1
                        /\ headToHead'.team2Wins = headToHead.team2Wins
                    \/ /\ WinnerId(cur) = team2
                        /\ headToHead'.team2Wins = headToHead.team2Wins + 1
                        /\ headToHead'.team1Wins = headToHead.team1Wins
            ELSE headToHead' = headToHead]_vars

\* two distinct playing teams without a shared match: the matches met had a
\* third team, and the tally is returned with three zeros
C12_Witness ==
    /\ page = "headToHead" /\ pc = "done" /\ team # team2
    /\ visited = 2 /\ participatingTeamIds = {"t1", "t2", "t3"}
    /\ headToHead = headToHeadInit

\* ---- C13
\* the buckets after one call of applyHandicapRange on fresh buckets
OneMatchBuckets(d) ==
    applyHandicapRange(d, handicapRange, handicapValues, createBuckets(handicapRange))

\* C13: a single won match with kill differential >= 17 is counted in the
\* victory and the general bucket at every handicap of the range and the
\* loss buckets stay 0; a single lost match with differential <= -17 is
\* covered at no handicap, not even +16.5, so the loss and the general
\* counts and percentages are 0 over the whole range.
C13_ExtremeDifferentials ==
    /\ (page = "compare" /\ visited = 0 /\ pc = "loop") =>
           \A d \in 17..MaxKillDiff :
               /\ \A h \in RangeOf(handicapRange) : OneMatchBuckets(d)[h] = 1
               /\ \A h \in RangeOf(handicapRange) : OneMatchBuckets(-d)[h] = 0
    /\ (page = "compare" /\ pc = "done" /\ teamData.totalMatches = 1) =>
           /\ (acc.killSum >= 17 /\ teamData.victories = 1) =>
                  \A h \in RangeOf(handicapRange) :
                      /\ teamData.handicap.counts.victories[h] = 1
                      /\ teamData.handicap.counts.general[h] = 1
                      /\ teamData.handicap.counts.losses[h] = 0
                      /\ teamData.handicap.percentages.victories[h] = 10000
                      /\ teamData.handicap.percentages.losses[h] = 0
           /\ (acc.killSum <= -17 /\ teamData.losses = 1) =>
                  \A h \in RangeOf(handicapRange) :
                      /\ teamData.handicap.counts.losses[h] = 0
                      /\ teamData.handicap.counts.general[h] = 0
                      /\ teamData.handicap.counts.victories[h] = 0
                      /\ teamData.handicap.percentages.losses[h] = 0
                      /\ teamData.handicap.percentages.general[h] = 0

\* the comparison has summarised a single match, lost by 20 kills
C13_Witness ==
    /\ page = "compare" /\ pc = "done" /\ teamData.totalMatches = 1
    /\ teamData.losses = 1 /\ acc.killSum = -20
    /\ teamData.handicap.counts.general[ExpectedRange[18]] = 0

\* ---- C14
\* the value (in tenths) the loops of buildHandicapRange hold when they push
\* the i-th label: -16.5 + 2 (i - 1) in the first loop, 0.5 + 2 (i - 10) in
\* the second
LoopValue(i) == IF i <= 9 THEN -165 + 20 * (i - 1) ELSE 5 + 20 * (i - 10)

\* the label ends in a point and one digit, and has no other point
OneDecimalDigit(label) ==
    /\ Len(label) >= 3
    /\ label[Len(label) - 1] = "."
    /\ label[Len(label)] \in RangeOf(Digits)
    /\ \A k \in 1..(Len(label) - 2) : label[k] # "."

\* C14: every label formatHandicap produces for a value of the range has
\* exactly one decimal digit, and Number(label) is the value it was made
\* from, so the bucket keyed by a label and the arithmetic on the parsed
\* label are about the same handicap.
C14_LabelRoundTrip ==
    /\ Len(handicapRange) = 18
    /\ \A i \in 1..Len(handicapRange) :
           /\ OneDecimalDigit(handicapRange[i])
           /\ NumberOf(handicapRange[i]) = LoopValue(i)
           /\ handicapRange[i] = formatHandicap(LoopValue(i))
           /\ handicapRange[i] = formatHandicapGeneral(LoopValue(i))
           /\ handicapRange[i] = formatHandicapTeam(LoopValue(i))
           /\ handicapValues # Unused => handicapValues[i] = LoopValue(i)

\* the team page has parsed the labels for a match won by 5 kills: the
\* bucket of "-4.5" has counted it, the bucket of "-6.5" has not
C14_Witness ==
    /\ page = "team" /\ pc = "loop" /\ visited = 1
    /\ overallStats.wins = 1
    /\ overallStats.handicapStatsWins[ExpectedRange[7]] = 1
    /\ overallStats.handicapStatsWins[ExpectedRange[6]] = 0

\* ---- C15
\* the score of team t in the match minus the score of its opponent
OwnMinusOpponent(m, t) ==
    IF m.radiantTeamId = t THEN m.radiantScore - m.direScore
    ELSE m.direScore - m.radiantScore

\* team t is on the side the radiant-win flag names
SideWon(m, t) ==
    (m.radiantTeamId = t /\ m.radiantWin) \/ (m.direTeamId = t /\ ~m.radiantWin)

\* the match is between two distinct teams
TwoTeams(m) ==
    /\ Truthy(m.radiantTeamId) /\ Truthy(m.direTeamId)
    /\ m.radiantTeamId # m.direTeamId

\* C15: the classifier takes the team's own score minus the opponent's as
\* kill differential on either side, and the team has won iff it is radiant
\* and radiantWin holds or it is dire and radiantWin does not; between two
\* distinct teams the two differentials are negatives of each other and
\* exactly one team is the winner.
C15_Classifier ==
    /\ [](TwoTeams(cur) =>
            LET a == cur.radiantTeamId
                b == cur.direTeamId
            IN  /\ killDifferenceOf(cur, a) = -killDifferenceOf(cur, b)
                /\ teamWonOfCompare(cur, a) # teamWonOfCompare(cur, b)
                /\ generalKillDifference(cur, TRUE) = -generalKillDifference(cur, FALSE)
                /\ generalTeamWon(cur, TRUE) # generalTeamWon(cur, FALSE)
                /\ teamKillDifference(cur, a) = -teamKillDifference(cur, b)
                /\ teamWonOf(cur, a) # teamWonOf(cur, b))
    /\ [][/\ (page = "compare" /\ pc = "body" /\ ~NotPlaying(cur, team)) =>
              /\ acc'.killSum - acc.killSum = OwnMinusOpponent(cur, team)
              /\ (acc'.victories = acc.victories + 1) <=> SideWon(cur, team)
              /\ (acc'.losses = acc.losses + 1) <=> ~SideWon(cur, team)
          /\ (page = "general" /\ pc = "radiant"
              /\ cur.radiantTeamId \in DOMAIN bucketsByTeam) =>
              ((bucketsByTeam'[cur.radiantTeamId].victories
                    = bucketsByTeam[cur.radiantTeamId].victories + 1)
               <=> cur.radiantWin)
          /\ (page = "general" /\ pc = "dire"
              /\ cur.direTeamId \in DOMAIN bucketsByTeam) =>
              ((bucketsByTeam'[cur.direTeamId].victories
                    = bucketsByTeam[cur.direTeamId].victories + 1)
               <=> ~cur.radiantWin)
          /\ (page = "team" /\ pc = "body" /\ ~NotPlaying(cur, team)
              /\ TwoTeams(cur)) =>
              ((overallStats'.wins = overallStats.wins + 1) <=> SideWon(cur, team))
         ]_vars

\* the team was dire in a match the dire side won with 5 kills fewer
C15_Witness ==
    /\ page = "compare" /\ pc = "loop" /\ visited = 1 /\ team = "t1"
    /\ acc.totalMatches = 1 /\ acc.victories = 1 /\ acc.killSum = -5

\* ---- C16
\* from old to new the counter of every handicap h of the range with
\* d + h > 0 grew by exactly 1, every other counter kept its value, and the
\* keys are the same
Incremented(old, new, d) ==
    /\ DOMAIN new = DOMAIN old
    /\ \A i \in 1..Len(handicapRange) :
           new[handicapRange[i]] =
               old[handicapRange[i]] + (IF d * 10 + LoopValue(i) > 0 THEN 1 ELSE 0)

\* the accumulator was called on the map of one category: that of the won
\* matches if the team won, that of the lost ones otherwise; the other map is
\* untouched
IncrementedByOutcome(oldWon, newWon, oldLost, newLost, d, won) ==
    IF won THEN Incremented(oldWon, newWon, d) /\ newLost = oldLost
    ELSE Incremented(oldLost, newLost, d) /\ newWon = oldWon

\* the step of a group map of the team page for the key of the match
GroupIncremented(old, new, key, d, won) ==
    IF ~Truthy(key) THEN new = old
    ELSE \E i \in 1..Len(new) :
             /\ new[i].id = key
             /\ IncrementedByOutcome(GroupStats(old, i).handicapStatsWins,
                                     new[i].stats.handicapStatsWins,
                                     GroupStats(old, i).handicapStatsLosses,
                                     new[i].stats.handicapStatsLosses, d, won)

\* C16: one call of the bucket accumulator with kill differential d
\* increments by exactly 1 the counter of every handicap h with d + h > 0,
\* leaves every other counter as it was, and neither adds nor removes a key
\* of the map.
C16_AccumulatorFrame ==
    [][/\ (page = "compare" /\ pc = "body" /\ ~NotPlaying(cur, team)) =>
           LET d == OwnMinusOpponent(cur, team)
           IN  /\ Incremented(acc.counts.general, acc'.counts.general, d)
               /\ IncrementedByOutcome(acc.counts.victories, acc'.counts.victories,
                                       acc.counts.losses, acc'.counts.losses,
                                       d, SideWon(cur, team))
       /\ (page = "general" /\ pc = "radiant"
           /\ cur.radiantTeamId \in DOMAIN bucketsByTeam) =>
           LET old == bucketsByTeam[cur.radiantTeamId].counts
               new == bucketsByTeam'[cur.radiantTeamId].counts
               d == cur.radiantScore - cur.direScore
           IN  /\ Incremented(old.general, new.general, d)
               /\ IncrementedByOutcome(old.victories, new.victories,
                                       old.losses, new.losses, d, cur.radiantWin)
       /\ (page = "general" /\ pc = "dire"
           /\ cur.direTeamId \in DOMAIN bucketsByTeam) =>
           LET old == bucketsByTeam[cur.direTeamId].counts
               new == bucketsByTeam'[cur.direTeamId].counts
               d == cur.direScore - cur.radiantScore
           IN  /\ Incremented(old.general, new.general, d)
               /\ IncrementedByOutcome(old.victories, new.victories,
                                       old.losses, new.losses, d, ~cur.radiantWin)
       /\ (page = "team" /\ pc = "body" /\ ~NotPlaying(cur, team)) =>
           LET d == OwnMinusOpponent(cur, team)
               won == overallStats'.wins = overallStats.wins + 1
           IN  /\ IncrementedByOutcome(overallStats.handicapStatsWins,
                                       overallStats'.handicapStatsWins,
                                       overallStats.handicapStatsLosses,
                                       overallStats'.handicapStatsLosses, d, won)
               /\ GroupIncremented(leagueStats, leagueStats', cur.leagueId, d, won)
               /\ GroupIncremented(patchStats, patchStats', cur.patchId, d, won)
      ]_vars

\* the team page has accumulated one match lost by 5 kills: the loss
\* counters from +6.5 on are 1, those up to +4.5 and all win counters are 0
C16_Witness ==
    /\ page = "team" /\ pc = "loop" /\ visited = 1 /\ overallStats.losses = 1
    /\ overallStats.handicapStatsLosses[ExpectedRange[13]] = 1
    /\ overallStats.handicapStatsLosses[ExpectedRange[12]] = 0
    /\ overallStats.handicapStatsWins[ExpectedRange[18]] = 0

\* ---- C17
\* the row of the general table and the summary of the comparison agree in
\* the totals and, in all three categories, in the counts and percentages
SameStatistics(row, data) ==
    /\ row.totalMatches = data.totalMatches
    /\ row.victories = data.victories
    /\ row.losses = data.losses
    /\ row.counts = data.handicap.counts
    /\ row.percentages = data.handicap.percentages

\* C17: for every team of the lookup the general table (accumulateMatchForTeam
\* over all matches, then calculatePercentages) yields the same totalMatches,
\* victories, losses and the same counts and percentages per handicap in all
\* three categories as calculateTeamHandicapData on the same matches.
C17_GeneralEqualsCompare ==
    (page = "general" /\ pc = "done") =>
        \A i \in 1..Len(rows) :
            SameStatistics(rows[i].stats, teamData[rows[i].team])

\* ---- C18
\* C18: over matches in all of which the team plays, the overall statistics
\* of the team page agree with calculateTeamHandicapData: wins = victories,
\* losses = losses, handicapStatsWins and handicapStatsLosses are
\* counts.victories and counts.losses, percentagesWins and percentagesLosses
\* are the victory and loss percentages, and percentagesTotal[h] is
\* percentages.general[h] for every handicap h.
C18_TeamPageEqualsCompare ==
    (page = "team" /\ pc = "done") =>
        /\ overallStats.wins = teamData.victories
        /\ overallStats.losses = teamData.losses
        /\ overallStats.handicapStatsWins = teamData.handicap.counts.victories
        /\ overallStats.handicapStatsLosses = teamData.handicap.counts.losses
        /\ overallStats.percentagesWins = teamData.handicap.percentages.victories
        /\ overallStats.percentagesLosses = teamData.handicap.percentages.losses
        /\ \A h \in RangeOf(handicapRange) :
               overallStats.percentagesTotal[h] = teamData.handicap.percentages.general[h]

\* ---- C19
\* the sum of totalMatches over the entries of a group map
RECURSIVE SumTotalMatches(_)
SumTotalMatches(map) ==
    IF map = <<>> THEN 0
    ELSE Head(map).stats.totalMatches + SumTotalMatches(Tail(map))

\* across the step the group grew by what the overall statistics grew by:
\* one match, one win or loss, and the same buckets
SameGrowth(groupOld, groupNew, allOld, allNew) ==
    /\ groupNew.totalMatches - groupOld.totalMatches
           = allNew.totalMatches - allOld.totalMatches
    /\ groupNew.wins - groupOld.wins = allNew.wins - allOld.wins
    /\ groupNew.losses - groupOld.losses = allNew.losses - allOld.losses
    /\ \A h \in RangeOf(handicapRange) :
           /\ groupNew.handicapStatsWins[h] - groupOld.handicapStatsWins[h]
                  = allNew.handicapStatsWins[h] - allOld.handicapStatsWins[h]
           /\ groupNew.handicapStatsLosses[h] - groupOld.handicapStatsLosses[h]
                  = allNew.handicapStatsLosses[h] - allOld.handicapStatsLosses[h]

\* the match went into the group of its key and into no other: without a
\* key the map is unchanged; with one, the entry of the key (new if the key
\* was not there) grew as the overall statistics did and every other entry
\* kept its value
WentToOwnGroup(old, new, key) ==
    IF ~Truthy(key) THEN new = old
    ELSE /\ Len(new) = Len(old) + (IF \E j \in 1..Len(old) : old[j].id = key
                                    THEN 0 ELSE 1)
         /\ \E i \in 1..Len(new) :
                /\ new[i].id = key
                /\ SameGrowth(GroupStats(old, i), new[i].stats,
                              overallStats, overallStats')
                /\ \A j \in 1..Len(old) : j # i => new[j] = old[j]

\* the entries of a group map have distinct, non-empty keys, each holds at
\* least one match and no more of anything than the overall statistics, and
\* together they hold at most as many matches as the overall statistics
SubsetsOfOverall(map) ==
    /\ \A i, j \in 1..Len(map) : map[i].id = map[j].id => i = j
    /\ \A i \in 1..Len(map) :
           /\ Truthy(map[i].id)
           /\ map[i].stats.totalMatches >= 1
           /\ map[i].stats.totalMatches = map[i].stats.wins + map[i].stats.losses
           /\ map[i].stats.wins <= overallStats.wins
           /\ map[i].stats.losses <= overallStats.losses
    /\ SumTotalMatches(map) <= overallStats.totalMatches

\* C19: on the team page the statistics of a league (patch) group are those
\* the overall computation yields on the matches with that league (patch)
\* id: a match with a non-empty key goes into exactly one league group and
\* one patch group, as it goes into the overall statistics, a match with an
\* empty key into no group of that dimension, so the totals of the groups of
\* a dimension sum to at most the overall totalMatches, and to exactly that
\* when every match has a key.
C19_GroupIsOverallOnSubset ==
    /\ [](page = "team" =>
            /\ SubsetsOfOverall(leagueStats)
            /\ SubsetsOfOverall(patchStats)
            /\ (pc = "done" =>
                   /\ RangeOf(leagueRows) = RangeOf(leagueStats)
                   /\ RangeOf(patchRows) = RangeOf(patchStats)
                   /\ Len(leagueRows) = Len(leagueStats)
                   /\ Len(patchRows) = Len(patchStats)))
    /\ [][(page = "team" /\ pc = "body") =>
            IF NotPlaying(cur, team)
            THEN leagueStats' = leagueStats /\ patchStats' = patchStats
            ELSE /\ overallStats'.totalMatches = overallStats.totalMatches + 1
                 /\ WentToOwnGroup(leagueStats, leagueStats', cur.leagueId)
                 /\ WentToOwnGroup(patchStats, patchStats', cur.patchId)
                 /\ SumTotalMatches(leagueStats') - SumTotalMatches(leagueStats)
                        = (IF cur.leagueId = "" THEN 0 ELSE 1)
                 /\ SumTotalMatches(patchStats') - SumTotalMatches(patchStats)
                        = (IF cur.patchId = "" THEN 0 ELSE 1)]_vars

\* three matches of the team, one without league id and one without patch
\* id: two groups of either dimension, holding two of the three matches
C19_Witness ==
    /\ page = "team" /\ pc = "done" /\ overallStats.totalMatches = 3
    /\ Len(leagueRows) = 2 /\ Len(patchRows) = 2
    /\ SumTotalMatches(leagueRows) = 2 /\ SumTotalMatches(patchRows) = 2

\* ---- C20
\* a map created for a team, a group or a category: every label of the range
\* with counter 0
FreshMap(m) ==
    /\ DOMAIN m = RangeOf(handicapRange)
    /\ \A h \in DOMAIN m : m[h] = 0

\* every entry of the group map other than that of the key keeps its value
OtherGroupsKept(old, new, key) ==
    \A i \in 1..Len(old) : old[i].id # key => new[i] = old[i]

\* the general table's two calls for the match at hand, in either order
BothSides(first, byTeam) ==
    LET call(isRadiant, bt) ==
            LET id == IF isRadiant THEN cur.radiantTeamId ELSE cur.direTeamId
            IN  IF Truthy(id)
                THEN accumulateMatchForTeam(cur, id, isRadiant, handicapRange,
                                            handicapValues, bt)
                ELSE bt
    IN  call(~first, call(first, byTeam))

Additive(s) ==
    /\ s.totalMatches = s.victories + s.losses
    /\ \A h \in RangeOf(handicapRange) :
           s.counts.general[h] = s.counts.victories[h] + s.counts.losses[h]

\* C21: after any sequence of accumulated matches the state of the
\* aggregator has totalMatches = victories + losses and, at every handicap
\* h, counts.general[h] = counts.victories[h] + counts.losses[h] (in
\* calculateTeamHandicapData and in the buckets of the general table).
C21_TotalsAddUp ==
    /\ page \in {"compare", "team"} => Additive(acc)
    /\ page = "general" =>
           \A t \in DOMAIN bucketsByTeam :
               Additive(bucketsByTeam[t]) /\ Additive(acc[t])

\* the general table has accumulated a victory and a loss for a team; at
\* +16.5 both are covered
C21_Witness ==
    /\ page = "general" /\ pc = "loop" /\ visited = 2
    /\ \E t \in DOMAIN bucketsByTeam :
           /\ bucketsByTeam[t].victories = 1 /\ bucketsByTeam[t].losses = 1
           /\ bucketsByTeam[t].counts.general[ExpectedRange[18]] = 2
           /\ bucketsByTeam[t].counts.general[ExpectedRange[1]] = 0

\* ---- C22
\* the accumulators that are being filled, in the shape of a summary
Accumulators ==
    CASE page = "compare" -> {acc}
      [] page = "general" -> {bucketsByTeam[t] : t \in DOMAIN bucketsByTeam}
      [] page = "team" ->
             {AsSummary(overallStats)}
             \cup {AsSummary(leagueStats[i].stats) : i \in 1..Len(leagueStats)}
             \cup {AsSummary(patchStats[i].stats) : i \in 1..Len(patchStats)}
      [] OTHER -> {}

\* every bucket count lies between 0 and the total of its category
WithinTotals(s) ==
    \A h \in RangeOf(handicapRange) :
        /\ 0 <= s.counts.victories[h] /\ s.counts.victories[h] <= s.victories
        /\ 0 <= s.counts.losses[h] /\ s.counts.losses[h] <= s.losses
        /\ 0 <= s.counts.general[h] /\ s.counts.general[h] <= s.totalMatches

\* C22: every bucket count is between 0 and the total of its category
\* (victories[h] <= victories, losses[h] <= losses, general[h] <=
\* totalMatches), so every percentage is between 0 and 100.
C22_CountsWithinTotals ==
    /\ \A s \in Accumulators : WithinTotals(s)
    /\ pc = "done" =>
           \A s \in Summaries :
               /\ WithinTotals(s)
               /\ \A c \in {"victories", "losses", "general"} :
                      \A h \in RangeOf(handicapRange) :
                          s.percentages[c][h] \in 0..10000

\* a comparison of two victories has ended: at +16.5 the count reaches the
\* total (100 per cent), at -16.5 it is 0
C22_Witness ==
    /\ page = "compare" /\ pc = "done"
    /\ teamData.victories = 2 /\ teamData.losses = 0
    /\ teamData.handicap.counts.victories[ExpectedRange[18]] = 2
    /\ teamData.handicap.percentages.victories[ExpectedRange[18]] = 10000
    /\ teamData.handicap.percentages.victories[ExpectedRange[1]] = 0

\* ------------------------------------------------------------------
\* calculateTeamHandicapData as a function of its input array
\* sides of the rows the function is called with: the team on either side,
\* and absent
OrderSides == {<<"t1", "t2">>, <<"t2", "t1">>, <<"t2", "t3">>}

OrderMatches == MatchRows(OrderSides, ScorePairs, {1800}, {<<"l1", "p1">>})

\* the team the function is called for
OrderTeam == "t1"

\* the arrays of at most MaxMatches rows
MatchArrays == UNION {[1..n -> OrderMatches] : n \in 0..MaxMatches}

\* the rearrangements of the indices 1..n
Rearrangements(n) ==
    {f \in [1..n -> 1..n] : \A i, j \in 1..n : f[i] = f[j] => i = j}

\* the array in the order f
Rearranged(array, f) == [i \in 1..Len(array) |-> array[f[i]]]

\* no page is serving a request
PagesIdle ==
    /\ page = Null /\ pc = "done" /\ team = Null /\ teams = <<>>
    /\ handicapRange = Unused /\ handicapValues = Unused
    /\ cur = NoMatch /\ visited = 0 /\ participatingTeamIds = {}
    /\ acc = Unused /\ teamData = Unused /\ bucketsByTeam = Unused /\ rows = <<>>
    /\ overallStats = Unused /\ leagueStats = <<>> /\ patchStats = <<>>
    /\ leagueRows = <<>> /\ patchRows = <<>>
    /\ team2 = Null /\ headToHead = Unused /\ headToHeadSwapped = Unused

InitOrder ==
    /\ PagesIdle /\ LimiterIdle /\ FetchIdle /\ SortIdle
    /\ matches \in MatchArrays
    /\ order \in Rearrangements(Len(matches))
    /\ inOrder = Unused
    /\ reordered = Unused

\* the function is called with the array, and with the rearranged array
Calculate ==
    /\ inOrder = Unused
    /\ inOrder' = calculateTeamHandicapData(matches, OrderTeam, buildHandicapRange)
    /\ reordered' = calculateTeamHandicapData(Rearranged(matches, order), OrderTeam,
                                              buildHandicapRange)
    /\ UNCHANGED <<matches, order, pageVars, limiterVars, fetchVars, sortVars>>

NextOrder == Calculate

SpecOrder == InitOrder /\ [][NextOrder]_vars

\* ---- C23
\* the counts of a return value of calculateTeamHandicapData
CountsOf(r) ==
    [totalMatches |-> r.totalMatches, victories |-> r.victories,
     losses |-> r.losses, counts |-> r.handicap.counts]

\* C23: the counts of calculateTeamHandicapData do not depend on the order
\* of the matches: every rearrangement of the input array gives the same
\* totalMatches, victories, losses and per-handicap counts.
C23_OrderIndependent ==
    inOrder # Unused => CountsOf(inOrder) = CountsOf(reordered)

\* a victory by 20 and a loss by 5 have been counted in both orders
C23_Witness ==
    /\ inOrder # Unused /\ Len(matches) = 2 /\ order = <<2, 1>>
    /\ matches[1].radiantTeamId = OrderTeam /\ matches[1].radiantWin
    /\ matches[1].radiantScore - matches[1].direScore = 20
    /\ matches[2].direTeamId = OrderTeam /\ matches[2].radiantWin
    /\ matches[2].radiantScore - matches[2].direScore = 5
    /\ inOrder.victories = 1 /\ inOrder.losses = 1

\* ---- C24
\* the sum of a counter over the teams of the lookup
RECURSIVE SumLoop(_, _, _)
SumLoop(i, byTeam, field) ==
    IF i > Len(teams) THEN 0
    ELSE byTeam[teams[i]][field] + SumLoop(i + 1, byTeam, field)

Total(byTeam, field) == SumLoop(1, byTeam, field)

\* the match has two distinct team ids, both in the lookup
BothInLookup(m) ==
    /\ Truthy(m.radiantTeamId) /\ Truthy(m.direTeamId)
    /\ m.radiantTeamId # m.direTeamId
    /\ {m.radiantTeamId, m.direTeamId} \subseteq DOMAIN bucketsByTeam

\* across the step the three sums grow by dT, dV, dL
SumsGrowBy(dT, dV, dL) ==
    /\ Total(bucketsByTeam', "totalMatches") = Total(bucketsByTeam, "totalMatches") + dT
    /\ Total(bucketsByTeam', "victories") = Total(bucketsByTeam, "victories") + dV
    /\ Total(bucketsByTeam', "losses") = Total(bucketsByTeam, "losses") + dL

\* C24: general table: a match with two distinct team ids that are both in
\* the lookup adds one victory and one loss (the radiant call one of them,
\* the dire call the other) and two to the sum of totalMatches, so that when
\* every match is such a match the victories of all teams and the losses of
\* all teams both sum to the number of matches and totalMatches sums to
\* twice that; a match whose team is missing from the lookup changes no
\* team's counters for that side.
C24_GeneralTableSums ==
    /\ []((page = "general" /\ pc = "loop"
            /\ participatingTeamIds \subseteq DOMAIN bucketsByTeam) =>
               /\ Total(bucketsByTeam, "victories") = Total(bucketsByTeam, "losses")
               /\ Total(bucketsByTeam, "totalMatches")
                      = 2 * Total(bucketsByTeam, "victories")
               /\ Total(bucketsByTeam, "victories") <= visited)
    /\ [][/\ (page = "general" /\ pc = "radiant" /\ BothInLookup(cur)) =>
                IF cur.radiantWin THEN SumsGrowBy(1, 1, 0) ELSE SumsGrowBy(1, 0, 1)
          /\ (page = "general" /\ pc = "dire" /\ BothInLookup(cur)) =>
                IF cur.radiantWin THEN SumsGrowBy(1, 0, 1) ELSE SumsGrowBy(1, 1, 0)
          /\ (page = "general" /\ pc = "radiant"
              /\ cur.radiantTeamId \notin DOMAIN bucketsByTeam) =>
                bucketsByTeam' = bucketsByTeam
          /\ (page = "general" /\ pc = "dire"
              /\ cur.direTeamId \notin DOMAIN bucketsByTeam) =>
                bucketsByTeam' = bucketsByTeam]_vars

\* two matches of the two teams of the lookup have been counted: two
\* victories, two losses, four in totalMatches
C24_Witness ==
    /\ page = "general" /\ pc = "loop" /\ visited = 2
    /\ Len(teams) = 2
    /\ Total(bucketsByTeam, "victories") = 2
    /\ Total(bucketsByTeam, "losses") = 2
    /\ Total(bucketsByTeam, "totalMatches") = 4
    /\ \A t \in DOMAIN bucketsByTeam : bucketsByTeam[t].totalMatches = 2

\* ---- C25
\* C25: exchanging the two teams of a head-to-head query exchanges the win
\* tallies: for two different teams A and B, over the same matches,
\* team1Wins of (A, B) is team2Wins of (B, A) and team2Wins of (A, B) is
\* team1Wins of (B, A).
C25_SwapExchangesTallies ==
    (page = "headToHead" /\ team # team2) =>
        /\ headToHead.team1Wins = headToHeadSwapped.team2Wins
        /\ headToHead.team2Wins = headToHeadSwapped.team1Wins

\* the first team has won both of two meetings, one on either side
C25_Witness ==
    /\ page = "headToHead" /\ pc = "done" /\ team # team2
    /\ headToHead.team1Wins = 2 /\ headToHead.team2Wins = 0
    /\ headToHeadSwapped.team2Wins = 2

\* ------------------------------------------------------------------
\* the rate limiter under the calls of the middleware
\* the clock stops at MaxTime, the calls at MaxCalls
MaxTime == 4

MaxCalls == 4

\* the limits and the windows the limiter is used with: 1..MaxLimit,
\* 1..MaxWindow
MaxLimit == 2

MaxWindow == 2

\* `api:${ip}` of two clients
Keys == {"api:1", "api:2"}

\* the values of resetAt
ResetTimes == 0..(MaxTime + MaxWindow)

InitLimiter ==
    /\ PagesIdle /\ OrderIdle /\ FetchIdle /\ SortIdle
    /\ buckets = EmptyMap
    /\ clock = 0
    /\ limit \in 1..MaxLimit
    /\ windowMs \in 1..MaxWindow
    /\ result = [calls |-> 0, key |-> Null, at |-> 0,
                 allowed |-> FALSE, remaining |-> 0, resetAt |-> 0]
    /\ granted = [p \in Keys \X ResetTimes |-> 0]

\* time passes between two requests
Tick ==
    /\ clock < MaxTime
    /\ clock' = clock + 1
    /\ UNCHANGED <<buckets, limit, windowMs, result, granted, pageVars, orderVars,
                   fetchVars, sortVars>>

\* the middleware calls rateLimit for a request of the client; the clock
\* advances by d between the now() of pruneExpired and the now() of rateLimit
RateLimit(key, d) ==
    /\ result.calls < MaxCalls
    /\ clock + d <= MaxTime
    /\ LET r == rateLimit(buckets, key, limit, windowMs, clock, clock + d)
       IN  /\ buckets' = r.buckets
           /\ result' = [calls |-> result.calls + 1, key |-> key, at |-> clock + d,
                         allowed |-> r.result.allowed,
                         remaining |-> r.result.remaining,
                         resetAt |-> r.result.resetAt]
           /\ granted' = IF r.result.allowed
                         THEN [granted EXCEPT ![<<key, r.result.resetAt>>] = @ + 1]
                         ELSE granted
    /\ clock' = clock + d
    /\ UNCHANGED <<limit, windowMs, pageVars, orderVars, fetchVars, sortVars>>

NextLimiter ==
    \/ Tick
    \/ \E key \in Keys, d \in 0..1 : RateLimit(key, d)

SpecLimiter == InitLimiter /\ [][NextLimiter]_vars

\* ---- C26
\* the step is a call of rateLimit
IsCall == result'.calls = result.calls + 1

\* C26: with a limit >= 1 and a window that are the same in every call, and
\* calls at non-decreasing times for any keys: the calls that return
\* allowed = true within one window of a key (all return that window's
\* resetAt) never number more than limit, the stored count of a record is
\* never above limit, and the first call of a key at a time >= resetAt of
\* its record is allowed and starts a new window with count 1.
C26_LimitHolds ==
    /\ [](/\ \A p \in DOMAIN granted : granted[p] <= limit
          /\ \A k \in DOMAIN buckets : buckets[k].count \in 1..limit)
    /\ [][(IsCall /\ result'.key \in DOMAIN buckets
              /\ buckets[result'.key].resetAt <= result'.at) =>
                /\ result'.allowed
                /\ buckets'[result'.key]
                       = [count |-> 1, resetAt |-> result'.at + windowMs]
                /\ result'.resetAt = result'.at + windowMs]_vars

\* a client has used up the limit of 2 in one window, was denied, and after
\* the window its next call has started a new window
C26_Witness ==
    /\ limit = 2 /\ result.allowed /\ result.calls = 4
    /\ buckets[result.key].count = 1
    /\ \E r \in ResetTimes :
           /\ r <= result.at
           /\ granted[<<result.key, r>>] = 2
    /\ granted[<<result.key, result.resetAt>>] = 1

\* ---- C27
\* the key has a record whose window is still open at the time
Unexpired(k, time) == k \in DOMAIN buckets /\ buckets[k].resetAt > time

\* C27: the windows are fixed, not sliding: every call for a key before the
\* resetAt of its record returns that resetAt and leaves it in the record; a
\* denied call leaves count and resetAt unchanged and returns remaining = 0;
\* a call for one key never changes the unexpired record of another key
\* (only records with resetAt <= now are pruned), and the passing of time
\* changes no record.
C27_FixedWindows ==
    [][/\ IsCall =>
            /\ Unexpired(result'.key, result'.at) =>
                   /\ result'.resetAt = buckets[result'.key].resetAt
                   /\ buckets'[result'.key].resetAt = buckets[result'.key].resetAt
            /\ ~result'.allowed =>
                   /\ Unexpired(result'.key, result'.at)
                   /\ buckets'[result'.key] = buckets[result'.key]
                   /\ result'.remaining = 0
            /\ \A other \in DOMAIN buckets \ {result'.key} :
                   /\ Unexpired(other, result'.at) =>
                          /\ other \in DOMAIN buckets'
                          /\ buckets'[other] = buckets[other]
                   /\ other \notin DOMAIN buckets' =>
                          buckets[other].resetAt <= result'.at
       /\ ~IsCall => buckets' = buckets]_vars

\* a call of one client has been denied while the other client has a record
\* with an open window
C27_Witness ==
    /\ ~result.allowed /\ result.calls = 4 /\ result.remaining = 0
    /\ buckets[result.key].count = limit
    /\ \E other \in DOMAIN buckets \ {result.key} :
           buckets[other].resetAt > result.at

\* ------------------------------------------------------------------
\* the paged match fetch
\* the selections have up to MaxPages full pages
MaxPages == 2

FetchFns == {"getMatchesByPatch", "getMatchesByTeamForHandicap"}

\* numbers of rows the query selects: full pages, one row more, one row less
RowCounts ==
    {n * pageSize + d : n \in 0..MaxPages, d \in {0, 1, 2, pageSize - 1}}

\* the selection in the order of the query; a row is named by its position
\* (mapMatch keeps the identity of the row)
TableOf(n) == [i \in 1..n |-> i]

InitFetch ==
    /\ PagesIdle /\ OrderIdle /\ LimiterIdle /\ SortIdle
    /\ fetchFn \in FetchFns
    /\ table \in {TableOf(n) : n \in RowCounts}
    /\ from = 0
    /\ results = <<>>
    /\ failed = FALSE
    /\ returned = [done |-> FALSE, value |-> <<>>]

\* one round of while (true): the request of the range is answered, with an
\* error or with the rows
Request(error) ==
    /\ fetchFn # Null /\ ~returned.done
    /\ LET data == rowsInRange(table, from, rangeTo(from))
       IN  IF error
           THEN /\ failed' = TRUE
                /\ returned' = [done |-> TRUE, value |-> results]
                /\ UNCHANGED <<from, results>>
           ELSE IF Len(data) = 0
           THEN /\ returned' = [done |-> TRUE, value |-> results]
                /\ UNCHANGED <<from, results, failed>>
           ELSE /\ results' = results \o data
                /\ from' = from + pageSize
                /\ UNCHANGED <<failed, returned>>
    /\ UNCHANGED <<fetchFn, table, pageVars, orderVars, limiterVars, sortVars>>

NextFetch == \E error \in BOOLEAN : Request(error)

\* every request is answered, so the round of the loop that is due is run
SpecFetch == InitFetch /\ [][NextFetch]_vars /\ WF_vars(NextFetch)

\* ---- C28
\* the first n rows of the selection
FirstRows(n) == SubSeq(table, 1, IF n < Len(table) THEN n ELSE Len(table))

MaxClicks == 3

\* the buttons of the header: Matches, Winrate, one per handicap of the
\* range the page passes in
SortKeys ==
    {MatchesKey, WinrateKey}
    \cup {HandicapKey(h) : h \in RangeOf(buildHandicapRangeGeneral)}

InitSort ==
    /\ PagesIdle /\ OrderIdle /\ LimiterIdle /\ FetchIdle
    /\ sortKey = MatchesKey
    /\ sortDirection = "desc"
    /\ clicks = <<>>

\* onClick of a header button
Click(nextKey) ==
    /\ sortKey # Unused /\ Len(clicks) < MaxClicks
    /\ LET next == handleSort(sortKey, sortDirection, nextKey)
       IN  /\ sortKey' = next.sortKey
           /\ sortDirection' = next.sortDirection
    /\ clicks' = Append(clicks, nextKey)
    /\ UNCHANGED <<pageVars, orderVars, limiterVars, fetchVars>>

NextSort == \E nextKey \in SortKeys : Click(nextKey)

SpecSort == InitSort /\ [][NextSort]_vars

\* ---- C29
\* the clicks so far, the initial state counting as one click on matches
ClickHistory == <<MatchesKey>> \o clicks

\* the number of clicks at the end of the history that are on its last column
TrailingClicks ==
    LET n == Len(ClickHistory)
        first == CHOOSE i \in 1..n :
                     /\ \A j \in i..n : ClickHistory[j] = ClickHistory[n]
                     /\ i > 1 => ClickHistory[i - 1] # ClickHistory[n]
    IN  n - first + 1

\* C29: the sort state of HandicapGeneralTable starts as (matches, desc);
\* a click on the active column flips the direction and nothing else, a
\* click on another column makes it the active column and sets the
\* direction to desc; so after any clicks the active column is the one
\* clicked last, and the direction is asc exactly when the number of
\* trailing clicks on that column (the initial state counting as one click
\* on matches) is even.
C29_SortState ==
    /\ [](/\ clicks = <<>> => (sortKey = MatchesKey /\ sortDirection = "desc")
          /\ sortKey = ClickHistory[Len(ClickHistory)]
          /\ sortDirection \in {"asc", "desc"}
          /\ sortDirection = "asc" <=> TrailingClicks % 2 = 0)
    /\ [][Len(clicks') = Len(clicks) + 1 =>
             IF clicks'[Len(clicks')] = sortKey
             THEN sortKey' = sortKey /\ sortDirection' # sortDirection
             ELSE sortKey' = clicks'[Len(clicks')] /\ sortDirection' = "desc"]_vars

\* after a click on one handicap column, another handicap column has been
\* clicked twice and is sorted ascending
C29_Witness ==
    /\ Len(clicks) = 3
    /\ clicks[1].kind = "handicap" /\ clicks[2].kind = "handicap"
    /\ clicks[1] # clicks[2] /\ clicks[3] = clicks[2]
    /\ sortKey = clicks[3] /\ sortDirection = "asc"

====
